---- MODULE Spec2Model ----
(***************************************************************************)
(* Model of the crypto_db storage engine (src/src/*.c): pager and page     *)
(* cache, leaf and internal B+tree nodes, cursor and the four statements.  *)
(*                                                                         *)
(* A page is a record.  The common header is node_type, is_root, parent;   *)
(* the two header words that follow are shared by both node layouts        *)
(* (constants.h:162,168,196,199): `count' is num_cells of a leaf and       *)
(* num_keys of an internal node, `link' is next_leaf of a leaf and         *)
(* right_child of an internal node.  `cells' is the body.                  *)
(*                                                                         *)
(* malloc'ed page memory is not zeroed (pager.c:73): every scalar that the *)
(* code has not written is G and every cell it has not written is GCell.   *)
(***************************************************************************)
EXTENDS Integers, Sequences, FiniteSets, TLC

\* ------------------------------------------------------------------ bounds
\* Cells per leaf.  The source derives 13 from PAGE_SIZE and ROW_SIZE
\* (constants.h:184); the model scales the leaf capacity down so that splits
\* at every level are within reach of exhaustive search.
LEAF_NODE_MAX_CELL == 2
\* ids of the statements of a session
MaxId == 7
\* ids of the statements of a session that also updates and deletes
MaxKey == 4
\* number of times the database file is opened
MaxOpens == 2
\* number of update statements and of delete statements
MaxUpdates == 1
MaxDeletes == 1
\* the bulk load inserts the ids LoadTop, LoadTop - 1, ...
LoadTop == 200

\* ------------------------------------------------------- program constants
TABLE_MAX_PAGES == 100
\* UINT32_MAX in the source; the model checker's integers end at 2^31 - 1,
\* and all the code asks of the value is to differ from every page number
INVALID_PAGE_NUM == 2147483647
PAGE_SIZE == 4096
INTERNAL_NODE_MAX_CELL == 3
INTERNAL_NODE == 0
LEAF_NODE == 1
LEAF_NODE_RIGHT_SPLIT_COUNT == (LEAF_NODE_MAX_CELL + 1) \div 2
LEAF_NODE_LEFT_SPLIT_COUNT == (LEAF_NODE_MAX_CELL + 1) - LEAF_NODE_RIGHT_SPLIT_COUNT

\* the value of memory the program has not written
G == -1
\* an empty slot of Pager.pages
NULL == [null |-> TRUE]

Ids == 1..MaxId

Keys == 1..MaxKey
\* the (username, email) an insert statement gives the row of each id
Names == <<"ann", "bob", "cat", "dan", "eve", "fay", "gus", "hal", "ian", "jon">>

Mails == <<"ann@x", "bob@x", "cat@x", "dan@x", "eve@x", "fay@x", "gus@x", "hal@x", "ian@x", "jon@x">>

ValOf(id) == IF id \in DOMAIN Names THEN <<Names[id], Mails[id]>> ELSE <<"usr", "usr@x">>

\* the (username, email) pairs of the update statements
Vals == {<<"zed", "zed@y">>}

\* ------------------------------------------------------------------- pages
\* body slots: a leaf uses 0..LEAF_NODE_MAX_CELL-1, an internal node
\* 0..INTERNAL_NODE_MAX_CELL (update_internal_node_key may write the key of
\* slot num_keys)
CellIdx == 0..(IF LEAF_NODE_MAX_CELL > INTERNAL_NODE_MAX_CELL + 1 THEN LEAF_NODE_MAX_CELL - 1 ELSE INTERNAL_NODE_MAX_CELL)

GCell == [tag |-> "g"]

\* an array of n slots that all hold x; slot i of an array is element i + 1
Fill(n, x) == [i \in 1..n |-> x]

NumCells == Cardinality(CellIdx)

Row(id, username, email) == [id |-> id, username |-> username, email |-> email]

\* serialize_row: the three fields copied to their offsets of the cell value
serialize_row(source) == [b_id |-> source.id, b_username |-> source.username, b_email |-> source.email]

\* deserialize_row: the three fields copied back from their offsets
deserialize_row(bytes) == Row(bytes.b_id, bytes.b_username, bytes.b_email)

GValue == [b_id |-> G, b_username |-> "?", b_email |-> "?"]

LeafCell(key, value) == [tag |-> "leaf", key |-> key, value |-> value]

InternalCell(child, key) == [tag |-> "int", child |-> child, key |-> key]

\* a page buffer fresh from malloc
FreshPage == [node_type |-> G, is_root |-> G, parent |-> G, count |-> G, link |-> G, cells |-> Fill(NumCells, GCell)]

get_node_type(node) == node.node_type

is_root_node(node) == node.is_root # 0

node_parent(node) == node.parent

leaf_node_num_cells(node) == node.count

leaf_node_next_leaf(node) == node.link

\* the cell of a leaf seen through the leaf layout; bytes that hold no leaf
\* cell read as garbage
leaf_node_cell(node, cell_num) == IF cell_num \in CellIdx /\ node.cells[cell_num + 1].tag = "leaf" THEN node.cells[cell_num + 1] ELSE LeafCell(G, GValue)

leaf_node_key(node, cell_num) == leaf_node_cell(node, cell_num).key

leaf_node_value(node, cell_num) == leaf_node_cell(node, cell_num).value

internal_node_num_keys(node) == node.count

internal_node_right_child(node) == node.link

internal_node_cell(node, cell_num) == IF cell_num \in CellIdx /\ node.cells[cell_num + 1].tag = "int" THEN node.cells[cell_num + 1] ELSE InternalCell(G, G)

internal_node_key(node, key_num) == internal_node_cell(node, key_num).key

RECURSIVE AsInternalCells(_, _)
\* the first n body slots as the internal layout reads them
AsInternalCells(cells, n) ==
    IF n = 0 THEN <<>>
    ELSE Append(AsInternalCells(cells, n - 1),
                IF cells[n].tag = "int" THEN cells[n]
                ELSE IF n = 1 /\ cells[n].tag = "leaf" THEN InternalCell(cells[n].key, cells[n].value.b_id)
                ELSE GCell)

\* initialize_leaf_node: header only, the body is left as it is
initialize_leaf_node(node) == [node EXCEPT !.node_type = LEAF_NODE, !.is_root = 0, !.count = 0, !.link = 0, !.parent = 0]

\* initialize_internal_node: header only.  The body keeps its bytes.  Read
\* through the internal layout, the key and the row id of leaf cell 0 lie
\* where child and key of internal cell 0 lie (offsets 14 and 18); the bytes
\* behind them are usernames and emails, arbitrary, so they become GCell.
initialize_internal_node(node) == [node EXCEPT !.node_type = INTERNAL_NODE, !.is_root = 0, !.count = 0, !.parent = 0, !.link = INVALID_PAGE_NUM, !.cells = AsInternalCells(node.cells, NumCells)]

\* ------------------------------------------------------------------- pager
\* The running process: the Pager fields, the file it has open (disk, a
\* sequence of pages), and how the run of the current statement went:
\*   err      "ok", or why the process ended ("exit": exit(EXIT_FAILURE) of
\*            internal_node_child, "exit_page_bound": exit(EXIT_FAILURE) of
\*            get_page, "ub": a fault of undefined behaviour, "loop": a
\*            loop that never ends)
\*   garbage  TRUE once a value the program never wrote decided a branch
\*            that ends the process when the value is INVALID_PAGE_NUM
\*   oob      TRUE once memory outside its object was touched: the slot
\*            Pager.pages[TABLE_MAX_PAGES], or a cell past the page
Machine(pager, disk) == [pages |-> pager.pages, num_pages |-> pager.num_pages, file_length |-> pager.file_length, disk |-> disk, err |-> "ok", garbage |-> FALSE, oob |-> FALSE]

PagerOf(m) == [pages |-> m.pages, num_pages |-> m.num_pages, file_length |-> m.file_length]

Fail(m, why) == IF m.err = "ok" THEN [m EXCEPT !.err = why] ELSE m

\* Pager.pages has TABLE_MAX_PAGES slots; index TABLE_MAX_PAGES is the
\* memory just past the array, which the guard of get_page admits
PageSlots == 0..TABLE_MAX_PAGES

\* page_open
page_open(disk) == [file_length |-> Len(disk) * PAGE_SIZE, num_pages |-> (Len(disk) * PAGE_SIZE) \div PAGE_SIZE, pages |-> Fill(TABLE_MAX_PAGES + 1, NULL)]

\* get_page: the machine after the call; the page is then m.pages[page_num]
get_page(m, page_num) ==
    IF m.err # "ok" THEN m
    ELSE IF page_num = G THEN Fail(m, "ub")
    ELSE IF page_num > TABLE_MAX_PAGES THEN Fail(m, "exit_page_bound")
    ELSE LET m1 == IF page_num = TABLE_MAX_PAGES THEN [m EXCEPT !.oob = TRUE] ELSE m
         IN IF m1.pages[page_num + 1] # NULL THEN m1
            ELSE LET num_pages == (m1.file_length \div PAGE_SIZE) + (IF m1.file_length % PAGE_SIZE # 0 THEN 1 ELSE 0)
                     \* read() at or past the end of the file returns 0 bytes
                     page == IF page_num <= num_pages /\ page_num < Len(m1.disk) THEN m1.disk[page_num + 1] ELSE FreshPage
                 IN [m1 EXCEPT !.pages[page_num + 1] = page, !.num_pages = IF page_num >= m1.num_pages THEN page_num + 1 ELSE m1.num_pages]

\* get_unused_page_num that passes over a page
get_unused_page_num_next(m) == m.num_pages + 1

get_unused_page_num(m) == m.num_pages

\* the page behind a pointer obtained from get_page
Node(m, page_num) == IF page_num \in PageSlots /\ m.pages[page_num + 1] # NULL THEN m.pages[page_num + 1] ELSE FreshPage

SetNode(m, page_num, node) == IF m.err = "ok" /\ page_num \in PageSlots THEN [m EXCEPT !.pages[page_num + 1] = node] ELSE m


\* *node_parent(node) = parent_page_num
SetParent(m, page_num, parent_page_num) == SetNode(m, page_num, [Node(m, page_num) EXCEPT !.parent = parent_page_num])

\* a store to the header word at offset 10: next_leaf, right_child
SetLink(m, page_num, link) == SetNode(m, page_num, [Node(m, page_num) EXCEPT !.link = link])

\* a store to the header word at offset 6: num_cells, num_keys
SetCount(m, page_num, count) == SetNode(m, page_num, [Node(m, page_num) EXCEPT !.count = count])

\* (*num_keys)--
DecCount(m, page_num) == SetCount(m, page_num, Node(m, page_num).count - 1)

\* ------------------------------------------------------------ node helpers
\* internal_node_child: the accessor checks what the slot holds before it
\* hands out the pointer, for reads and for writes alike.  v is the child
\* page read through the pointer.
internal_node_child(m, page_num, child_num) ==
    LET node == Node(m, page_num)
        num_key == internal_node_num_keys(node)
        v == IF child_num = num_key THEN internal_node_right_child(node) ELSE internal_node_cell(node, child_num).child
    IN IF m.err # "ok" THEN [m |-> m, v |-> G]
       ELSE IF child_num > num_key THEN [m |-> Fail(m, "exit"), v |-> G]
       ELSE IF v = INVALID_PAGE_NUM THEN [m |-> Fail(m, "exit"), v |-> G]
       ELSE IF v = G THEN [m |-> [m EXCEPT !.garbage = TRUE], v |-> G]
       ELSE [m |-> m, v |-> v]

\* the store through the pointer internal_node_child handed out
StoreChild(m, page_num, child_num, child_page_num) ==
    SetNode(m, page_num, [Node(m, page_num) EXCEPT !.cells[child_num + 1] =
        InternalCell(child_page_num, internal_node_cell(Node(m, page_num), child_num).key)])

\* *internal_node_child(node, child_num) = child_page_num on a cell slot
SetInternalChild(m, page_num, child_num, child_page_num) ==
    StoreChild(internal_node_child(m, page_num, child_num).m, page_num, child_num, child_page_num)

\* *internal_node_key(node, key_num) = key
SetInternalKey(m, page_num, key_num, key) ==
    SetNode(m, page_num, [Node(m, page_num) EXCEPT !.cells[key_num + 1] =
        InternalCell(internal_node_cell(Node(m, page_num), key_num).child, key)])

RECURSIVE get_node_max_key(_, _, _)
\* get_node_max_key: m is the machine after the page fetches, v the key.
\* depth counts the levels descended; a chain of right children longer than
\* the page cache never returns.
get_node_max_key(m, page_num, depth) ==
    LET node == Node(m, page_num)
    IN IF m.err # "ok" THEN [m |-> m, v |-> G]
       ELSE IF depth > TABLE_MAX_PAGES + 1 THEN [m |-> Fail(m, "loop"), v |-> G]
       ELSE IF get_node_type(node) = LEAF_NODE
            THEN \* num_cells - 1 wraps to UINT32_MAX on an empty leaf and the
                 \* cell address leaves the page
                 IF leaf_node_num_cells(node) = 0 \/ leaf_node_num_cells(node) = G
                 THEN [m |-> Fail(m, "ub"), v |-> G]
                 ELSE [m |-> m, v |-> leaf_node_key(node, leaf_node_num_cells(node) - 1)]
            ELSE IF get_node_type(node) = G THEN [m |-> Fail(m, "ub"), v |-> G]
            ELSE get_node_max_key(get_page(m, internal_node_right_child(node)), internal_node_right_child(node), depth + 1)

RECURSIVE LeafSearch_past(_, _, _, _)
\* the loop of find_leaf_node without the test for the key itself
LeafSearch_past(node, key, min_index, one_past_max_index) ==
    IF min_index = one_past_max_index THEN min_index
    ELSE LET mid_index == (min_index + one_past_max_index) \div 2
             key_at_mid_index == leaf_node_key(node, mid_index)
         IN IF key < key_at_mid_index THEN LeafSearch_past(node, key, min_index, mid_index)
            ELSE LeafSearch_past(node, key, mid_index + 1, one_past_max_index)

RECURSIVE LeafSearch(_, _, _, _)
\* the loop of find_leaf_node
LeafSearch(node, key, min_index, one_past_max_index) ==
    IF min_index = one_past_max_index THEN min_index
    ELSE LET mid_index == (min_index + one_past_max_index) \div 2
             key_at_mid_index == leaf_node_key(node, mid_index)
         IN IF key_at_mid_index = key THEN mid_index
            ELSE IF key < key_at_mid_index THEN LeafSearch(node, key, min_index, mid_index)
            ELSE LeafSearch(node, key, mid_index + 1, one_past_max_index)

Cursor(page_num, cell_num, end_of_table) == [page_num |-> page_num, cell_num |-> cell_num, end_of_table |-> end_of_table]

\* find_leaf_node
find_leaf_node(m, page_num, key) ==
    LET m1 == get_page(m, page_num)
        node == Node(m1, page_num)
        num_cell == leaf_node_num_cells(node)
    IN IF m1.err # "ok" THEN [m |-> m1, cursor |-> Cursor(page_num, 0, FALSE)]
       ELSE IF num_cell = G THEN [m |-> Fail(m1, "ub"), cursor |-> Cursor(page_num, 0, FALSE)]
       ELSE [m |-> m1, cursor |-> Cursor(page_num, LeafSearch(node, key, 0, num_cell), FALSE)]

RECURSIVE InternalSearch_strict(_, _, _, _)
\* the loop of internal_node_find_child that goes left only for a key below
\* the key read
InternalSearch_strict(node, key, min_index, max_index) ==
    IF min_index = max_index THEN min_index
    ELSE LET index == (min_index + max_index) \div 2
             key_at_index == internal_node_key(node, index)
         IN IF key < key_at_index THEN InternalSearch_strict(node, key, min_index, index)
            ELSE InternalSearch_strict(node, key, index + 1, max_index)

RECURSIVE InternalSearch(_, _, _, _)
\* the loop of internal_node_find_child
InternalSearch(node, key, min_index, max_index) ==
    IF min_index = max_index THEN min_index
    ELSE LET index == (min_index + max_index) \div 2
             key_at_index == internal_node_key(node, index)
         IN IF key <= key_at_index THEN InternalSearch(node, key, min_index, index)
            ELSE InternalSearch(node, key, index + 1, max_index)

\* internal_node_find_child
internal_node_find_child(node, key) == InternalSearch(node, key, 0, internal_node_num_keys(node))

RECURSIVE find_internal_node(_, _, _, _)
RECURSIVE find_internal_node_child(_, _, _, _)
\* find_internal_node that descends into the node itself again when the
\* child is an internal node
find_internal_node_child_same(c, page_num, key, depth) ==
    LET m2 == get_page(c.m, c.v)
        child == Node(m2, c.v)
    IN IF m2.err # "ok" THEN [m |-> m2, cursor |-> Cursor(page_num, 0, FALSE)]
       ELSE IF get_node_type(child) = LEAF_NODE THEN find_leaf_node(m2, c.v, key)
       ELSE IF get_node_type(child) = INTERNAL_NODE THEN find_internal_node(m2, page_num, key, depth + 1)
       ELSE [m |-> Fail(m2, "ub"), cursor |-> Cursor(page_num, 0, FALSE)]

\* find_internal_node from the switch on the type of the child; c is the
\* child page number with the machine after internal_node_child
find_internal_node_child(c, page_num, key, depth) ==
    LET m2 == get_page(c.m, c.v)
        child == Node(m2, c.v)
    IN IF m2.err # "ok" THEN [m |-> m2, cursor |-> Cursor(page_num, 0, FALSE)]
       ELSE IF get_node_type(child) = LEAF_NODE THEN find_leaf_node(m2, c.v, key)
       ELSE IF get_node_type(child) = INTERNAL_NODE THEN find_internal_node(m2, c.v, key, depth + 1)
       ELSE \* the switch has no case for another type byte: the function
            \* ends without a return value
            [m |-> Fail(m2, "ub"), cursor |-> Cursor(page_num, 0, FALSE)]

\* find_internal_node; depth counts the levels descended.  The descent
\* changes no page, so one that has gone through more internal nodes than the
\* table has pages has been in one of them before and never ends
find_internal_node(m, page_num, key, depth) ==
    LET m1 == get_page(m, page_num)
        child_index == internal_node_find_child(Node(m1, page_num), key)
    IN IF m1.err # "ok" THEN [m |-> m1, cursor |-> Cursor(page_num, 0, FALSE)]
       ELSE IF depth > m1.num_pages THEN [m |-> Fail(m1, "loop"), cursor |-> Cursor(page_num, 0, FALSE)]
       ELSE find_internal_node_child(internal_node_child(m1, page_num, child_index), page_num, key, depth)

\* find_table
find_table(m, root_page_num, key) ==
    LET m1 == get_page(m, root_page_num)
        root_node == Node(m1, root_page_num)
    IN IF get_node_type(root_node) = LEAF_NODE THEN find_leaf_node(m1, root_page_num, key)
       ELSE find_internal_node(m1, root_page_num, key, 0)

\* update_internal_node_key
update_internal_node_key(m, page_num, old_key, new_key) ==
    SetInternalKey(m, page_num, internal_node_find_child(Node(m, page_num), old_key), new_key)

\* ---------------------------------------------------------- root creation
\* create_new_root that leaves the children of the copied root with the
\* parent they had, page 0
Reparent_none(m, left_child_page_num, i) == m

RECURSIVE Reparent(_, _, _)
\* for (i = 0; i < num_keys(left_child); i++) of create_new_root
Reparent(m, left_child_page_num, i) ==
    IF m.err # "ok" \/ i >= internal_node_num_keys(Node(m, left_child_page_num)) THEN m
    ELSE LET c == internal_node_child(m, left_child_page_num, i)
         IN Reparent(SetParent(get_page(c.m, c.v), c.v, left_child_page_num), left_child_page_num, i + 1)

\* create_new_root from "*internal_node_key(root, 0) = left_child_max_key"
create_new_root_link(left_child_max_key, root_page_num, right_child_page_num, left_child_page_num) ==
    IF left_child_max_key.m.err # "ok" THEN left_child_max_key.m
    ELSE SetParent(SetParent(SetLink(SetInternalKey(left_child_max_key.m, root_page_num, 0, left_child_max_key.v),
                                     root_page_num, right_child_page_num),
                             left_child_page_num, root_page_num),
                   right_child_page_num, root_page_num)

\* create_new_root that takes key 0 of the root from the right child
create_new_root_init_right(m, root_page_num, right_child_page_num, left_child_page_num) ==
    IF m.err # "ok" THEN m
    ELSE create_new_root_link(
             get_node_max_key(
                 SetInternalChild(
                     SetNode(m, root_page_num, [initialize_internal_node(Node(m, root_page_num)) EXCEPT !.is_root = 1, !.count = 1]),
                     root_page_num, 0, left_child_page_num),
                 right_child_page_num, 0),
             root_page_num, right_child_page_num, left_child_page_num)

\* create_new_root from initialize_internal_node(root)
create_new_root_init(m, root_page_num, right_child_page_num, left_child_page_num) ==
    IF m.err # "ok" THEN m
    ELSE create_new_root_link(
             get_node_max_key(
                 SetInternalChild(
                     SetNode(m, root_page_num, [initialize_internal_node(Node(m, root_page_num)) EXCEPT !.is_root = 1, !.count = 1]),
                     root_page_num, 0, left_child_page_num),
                 left_child_page_num, 0),
             root_page_num, right_child_page_num, left_child_page_num)

\* create_new_root whose copy of the old root keeps the is_root byte
create_new_root_copy_root(m, root_page_num, right_child_page_num, left_child_page_num) ==
    LET root == Node(m, root_page_num)
        root_right_child == IF get_node_type(root) = INTERNAL_NODE
                            THEN initialize_internal_node(Node(m, right_child_page_num))
                            ELSE Node(m, right_child_page_num)
        copied == SetNode(SetNode(m, right_child_page_num, root_right_child), left_child_page_num, root)
    IN IF m.err # "ok" THEN m
       ELSE create_new_root_init(
                IF get_node_type(root) = INTERNAL_NODE THEN Reparent(copied, left_child_page_num, 0) ELSE copied,
                root_page_num, right_child_page_num, left_child_page_num)

\* create_new_root from the first test of the root's type; the three pages
\* are in the cache.  The num_cells written to left_child when its type byte
\* says leaf is overwritten by the memcpy of the whole page.
create_new_root_copy(m, root_page_num, right_child_page_num, left_child_page_num) ==
    LET root == Node(m, root_page_num)
        root_right_child == IF get_node_type(root) = INTERNAL_NODE
                            THEN initialize_internal_node(Node(m, right_child_page_num))
                            ELSE Node(m, right_child_page_num)
        copied == SetNode(SetNode(m, right_child_page_num, root_right_child), left_child_page_num, [root EXCEPT !.is_root = 0])
    IN IF m.err # "ok" THEN m
       ELSE create_new_root_init(
                IF get_node_type(root) = INTERNAL_NODE THEN Reparent(copied, left_child_page_num, 0) ELSE copied,
                root_page_num, right_child_page_num, left_child_page_num)

\* create_new_root; the root is page 0 (table->root_page_num)
create_new_root(m, root_page_num, right_child_page_num) ==
    LET m1 == get_page(get_page(m, root_page_num), right_child_page_num)
    IN create_new_root_copy(get_page(m1, get_unused_page_num(m1)), root_page_num, right_child_page_num, get_unused_page_num(m1))

\* ------------------------------------------------------- internal insertion
RECURSIVE internal_node_insert(_, _, _, _)
RECURSIVE internal_node_split_insert(_, _, _, _)
RECURSIVE MoveKeys(_, _, _, _, _)
\* for (i = INTERNAL_NODE_MAX_CELL - 1; i > INTERNAL_NODE_MAX_CELL / 2; i--)
\* of internal_node_split_insert
MoveKeys(m, old_page_num, new_page_num, i, depth) ==
    IF m.err # "ok" \/ ~(i > INTERNAL_NODE_MAX_CELL \div 2) THEN m
    ELSE LET c == internal_node_child(m, old_page_num, i)
         IN MoveKeys(DecCount(SetParent(internal_node_insert(get_page(c.m, c.v), new_page_num, c.v, depth + 1), c.v, new_page_num),
                              old_page_num),
                     old_page_num, new_page_num, i - 1, depth)

\* *node_parent(new_node) = *node_parent(old_node)
CopyParent(m, new_page_num, old_page_num) == SetParent(m, new_page_num, node_parent(Node(m, old_page_num)))

\* internal_node_split_insert from "if (!splitting_root)"
internal_node_split_insert_parent(m, old_page_num, new_page_num, splitting_root, depth) ==
    IF m.err # "ok" \/ splitting_root THEN m
    ELSE CopyParent(internal_node_insert(m, node_parent(Node(m, old_page_num)), new_page_num, depth + 1), new_page_num, old_page_num)

\* internal_node_split_insert from "uint32_t destination_page_num"
internal_node_split_insert_child(max_after_split, old_page_num, parent_page_num, new_page_num, child_page_num, child_max, old_max, splitting_root, depth) ==
    LET destination_page_num == IF child_max < max_after_split.v THEN old_page_num ELSE new_page_num
        new_old_max == get_node_max_key(
                           SetParent(internal_node_insert(max_after_split.m, destination_page_num, child_page_num, depth + 1),
                                     child_page_num, destination_page_num),
                           old_page_num, 0)
    IN IF max_after_split.m.err # "ok" THEN max_after_split.m
       ELSE IF new_old_max.m.err # "ok" THEN new_old_max.m
       ELSE internal_node_split_insert_parent(
                update_internal_node_key(new_old_max.m, parent_page_num, old_max, new_old_max.v),
                old_page_num, new_page_num, splitting_root, depth)

\* *internal_node_child(old_node, *old_num_keys - 1)
LastKeyChild(m, old_page_num) == internal_node_child(m, old_page_num, internal_node_num_keys(Node(m, old_page_num)) - 1)

\* *internal_node_right_child(old_node) = *internal_node_child(old_node, *old_num_keys - 1);
\* (*old_num_keys)--
PromoteChild(c, old_page_num) == DecCount(SetLink(c.m, old_page_num, c.v), old_page_num)

\* internal_node_split_insert from "uint32_t *old_num_keys"; old_page_num is
\* the node that is split, parent_page_num the page behind `parent'
internal_node_split_insert_move(m, old_page_num, parent_page_num, new_page_num, child_page_num, child_max, old_max, splitting_root, depth) ==
    LET cur_page_num == internal_node_right_child(Node(m, old_page_num))
        \* the right child of the old node goes first, then the keys above the middle
        moved == MoveKeys(
                     SetLink(SetParent(internal_node_insert(get_page(m, cur_page_num), new_page_num, cur_page_num, depth + 1),
                                       cur_page_num, new_page_num),
                             old_page_num, INVALID_PAGE_NUM),
                     old_page_num, new_page_num, INTERNAL_NODE_MAX_CELL - 1, depth)
    IN IF m.err # "ok" THEN m
       ELSE IF moved.err # "ok" THEN moved
       ELSE internal_node_split_insert_child(
                get_node_max_key(
                    PromoteChild(LastKeyChild(moved, old_page_num), old_page_num),
                    old_page_num, 0),
                old_page_num, parent_page_num, new_page_num, child_page_num, child_max, old_max, splitting_root, depth)

\* initialize_internal_node(get_page(pager, page_num))
InitInternal(m, page_num) == SetNode(m, page_num, initialize_internal_node(Node(m, page_num)))

\* internal_node_split_insert, splitting the root: the old node is from now
\* on the left child of the new root; c is *internal_node_child(parent, 0)
internal_node_split_insert_root(c, new_page_num, child_page_num, child_max, old_max, depth) ==
    IF c.m.err # "ok" THEN c.m
    ELSE internal_node_split_insert_move(get_page(c.m, c.v), c.v, 0, new_page_num, child_page_num, child_max, old_max, TRUE, depth)

\* internal_node_split_insert from "uint32_t new_page_num"
internal_node_split_insert_new(child_max, parent_page_num, child_page_num, old_max, depth) ==
    LET m == child_max.m
        new_page_num == get_unused_page_num(m)
        parent_of_old == node_parent(Node(m, parent_page_num))
    IN IF m.err # "ok" THEN m
       ELSE IF is_root_node(Node(m, parent_page_num))
       THEN internal_node_split_insert_root(internal_node_child(get_page(create_new_root(m, 0, new_page_num), 0), 0, 0),
                                            new_page_num, child_page_num, child_max.v, old_max, depth)
       ELSE internal_node_split_insert_move(InitInternal(get_page(get_page(m, parent_of_old), new_page_num), new_page_num),
                                            parent_page_num, parent_of_old, new_page_num, child_page_num,
                                            child_max.v, old_max, FALSE, depth)

\* internal_node_split_insert from "void *child"
internal_node_split_insert_old(old_max, parent_page_num, child_page_num, depth) ==
    IF old_max.m.err # "ok" THEN old_max.m
    ELSE internal_node_split_insert_new(get_node_max_key(get_page(old_max.m, child_page_num), child_page_num, 0),
                                        parent_page_num, child_page_num, old_max.v, depth)

\* internal_node_split_insert; depth counts the nested splits
internal_node_split_insert(m, parent_page_num, child_page_num, depth) ==
    IF m.err # "ok" THEN m
    ELSE IF depth > TABLE_MAX_PAGES + 1 THEN Fail(m, "loop")
    ELSE internal_node_split_insert_old(get_node_max_key(get_page(m, parent_page_num), parent_page_num, 0),
                                        parent_page_num, child_page_num, depth)

\* internal_node_insert, the new child beyond the right child: the right
\* child moves to cell orignal_num_keys, the new child becomes the right child
internal_node_insert_right(right_max, parent_page_num, child_page_num, orignal_num_keys) ==
    SetLink(SetInternalKey(right_max.m, parent_page_num, orignal_num_keys, right_max.v), parent_page_num, child_page_num)

\* internal_node_insert that writes the new cell at index without moving the
\* cells from index on up by one
MakeSpace_unmoved(m, parent_page_num, index, orignal_num_keys) == m

\* the loop that makes room at cell index: cells index..orignal_num_keys-1
\* move one slot right
MakeSpace(m, parent_page_num, index, orignal_num_keys) ==
    SetNode(m, parent_page_num, [Node(m, parent_page_num) EXCEPT !.cells =
        SubSeq(@, 1, index + 1) \o SubSeq(@, index + 1, orignal_num_keys) \o SubSeq(@, orignal_num_keys + 2, NumCells)])

\* internal_node_insert from "if (child_max_key > get_node_max_key(...))"
internal_node_insert_cell(right_max, parent_page_num, child_page_num, child_max_key, index, orignal_num_keys, right_child_page_num) ==
    SetParent(
        get_page(
            IF child_max_key > right_max.v
            THEN internal_node_insert_right(
                     get_node_max_key(SetInternalChild(right_max.m, parent_page_num, orignal_num_keys, right_child_page_num),
                                      right_child_page_num, 0),
                     parent_page_num, child_page_num, orignal_num_keys)
            ELSE SetInternalKey(
                     SetInternalChild(MakeSpace(right_max.m, parent_page_num, index, orignal_num_keys),
                                      parent_page_num, index, child_page_num),
                     parent_page_num, index, child_max_key),
            child_page_num),
        child_page_num, parent_page_num)

\* internal_node_insert that raises num_keys before it looks at the right
\* child
internal_node_insert_index_counted(child_max_key, parent_page_num, child_page_num, depth) ==
    LET m == child_max_key.m
        parent == Node(m, parent_page_num)
        index == internal_node_find_child(parent, child_max_key.v)
        orignal_num_keys == internal_node_num_keys(parent)
        right_child_page_num == internal_node_right_child(parent)
    IN IF m.err # "ok" THEN m
       ELSE IF orignal_num_keys >= INTERNAL_NODE_MAX_CELL THEN internal_node_split_insert(m, parent_page_num, child_page_num, depth)
       ELSE IF right_child_page_num = INVALID_PAGE_NUM
            THEN SetLink(SetCount(m, parent_page_num, orignal_num_keys + 1), parent_page_num, child_page_num)
       ELSE internal_node_insert_cell(
                get_node_max_key(SetCount(get_page(m, right_child_page_num), parent_page_num, orignal_num_keys + 1),
                                 right_child_page_num, 0),
                parent_page_num, child_page_num, child_max_key.v, index, orignal_num_keys, right_child_page_num)

\* internal_node_insert from "uint32_t index"
internal_node_insert_index(child_max_key, parent_page_num, child_page_num, depth) ==
    LET m == child_max_key.m
        parent == Node(m, parent_page_num)
        index == internal_node_find_child(parent, child_max_key.v)
        orignal_num_keys == internal_node_num_keys(parent)
        right_child_page_num == internal_node_right_child(parent)
    IN IF m.err # "ok" THEN m
       ELSE IF orignal_num_keys >= INTERNAL_NODE_MAX_CELL THEN internal_node_split_insert(m, parent_page_num, child_page_num, depth)
       ELSE IF right_child_page_num = INVALID_PAGE_NUM THEN SetLink(m, parent_page_num, child_page_num)
       ELSE internal_node_insert_cell(
                get_node_max_key(SetCount(get_page(m, right_child_page_num), parent_page_num, orignal_num_keys + 1),
                                 right_child_page_num, 0),
                parent_page_num, child_page_num, child_max_key.v, index, orignal_num_keys, right_child_page_num)

\* internal_node_insert
internal_node_insert(m, parent_page_num, child_page_num, depth) ==
    IF m.err # "ok" THEN m
    ELSE internal_node_insert_index(get_node_max_key(get_page(get_page(m, parent_page_num), child_page_num), child_page_num, 0),
                                    parent_page_num, child_page_num, depth)

\* ----------------------------------------------------------- leaf insertion
RECURSIVE Redistribute_unshifted(_, _, _, _, _, _)
\* the loop of leaf_node_split_insert that copies cell i for every i, the
\* cells behind the new one not moved up by one
Redistribute_unshifted(old, new, i, cursor, key, value) ==
    IF i < 0 THEN [old |-> old, new |-> new]
    ELSE LET to_new == i >= LEAF_NODE_LEFT_SPLIT_COUNT
             index_within_node == i % LEAF_NODE_LEFT_SPLIT_COUNT
             cell == IF i = cursor.cell_num THEN LeafCell(key, serialize_row(value))
                     ELSE old.cells[i + 1]
         IN IF to_new THEN Redistribute_unshifted(old, [new EXCEPT !.cells[index_within_node + 1] = cell], i - 1, cursor, key, value)
            ELSE Redistribute_unshifted([old EXCEPT !.cells[index_within_node + 1] = cell], new, i - 1, cursor, key, value)

RECURSIVE Redistribute(_, _, _, _, _, _)
\* for (i = LEAF_NODE_MAX_CELL; i >= 0; i--) of leaf_node_split_insert, one
\* memcpy after the other
Redistribute(old, new, i, cursor, key, value) ==
    IF i < 0 THEN [old |-> old, new |-> new]
    ELSE LET to_new == i >= LEAF_NODE_LEFT_SPLIT_COUNT
             index_within_node == i % LEAF_NODE_LEFT_SPLIT_COUNT
             cell == IF i = cursor.cell_num THEN LeafCell(key, serialize_row(value))
                     ELSE IF i > cursor.cell_num THEN old.cells[i]
                     ELSE old.cells[i + 1]
         IN IF to_new THEN Redistribute(old, [new EXCEPT !.cells[index_within_node + 1] = cell], i - 1, cursor, key, value)
            ELSE Redistribute([old EXCEPT !.cells[index_within_node + 1] = cell], new, i - 1, cursor, key, value)

\* leaf_node_split_insert, the old node is not the root: from "uint32_t new_max"
leaf_node_split_insert_parent(new_max, old_page_num, new_page_num, old_max) ==
    LET parent_page_num == node_parent(Node(new_max.m, old_page_num))
    IN IF new_max.m.err # "ok" THEN new_max.m
       ELSE internal_node_insert(
                update_internal_node_key(get_page(new_max.m, parent_page_num), parent_page_num, old_max, new_max.v),
                parent_page_num, new_page_num, 0)

\* leaf_node_split_insert that takes a node for the root when its parent
\* field is 0
leaf_node_split_insert_up_parent(m, old_page_num, new_page_num, old_max) ==
    IF m.err # "ok" THEN m
    ELSE IF node_parent(Node(m, old_page_num)) = 0 THEN create_new_root(m, 0, new_page_num)
    ELSE leaf_node_split_insert_parent(get_node_max_key(m, old_page_num, 0), old_page_num, new_page_num, old_max)

\* leaf_node_split_insert from "if (is_root_node(old_node))"
leaf_node_split_insert_up(m, old_page_num, new_page_num, old_max) ==
    IF m.err # "ok" THEN m
    ELSE IF is_root_node(Node(m, old_page_num)) THEN create_new_root(m, 0, new_page_num)
    ELSE leaf_node_split_insert_parent(get_node_max_key(m, old_page_num, 0), old_page_num, new_page_num, old_max)

\* leaf_node_split_insert whose new leaf keeps the next_leaf of
\* initialize_leaf_node instead of taking over that of the old leaf
leaf_node_split_insert_cells_unlinked(old_max, cursor, key, value) ==
    LET old_page_num == cursor.page_num
        new_page_num == get_unused_page_num(old_max.m)
        m == get_page(old_max.m, new_page_num)
        old_node == Node(m, old_page_num)
        new_node == [initialize_leaf_node(Node(m, new_page_num)) EXCEPT !.parent = node_parent(old_node)]
        done == Redistribute([old_node EXCEPT !.link = new_page_num], new_node, LEAF_NODE_MAX_CELL, cursor, key, value)
    IN IF m.err # "ok" THEN m
       ELSE leaf_node_split_insert_up(
                SetNode(SetNode(m, old_page_num, [done.old EXCEPT !.count = LEAF_NODE_LEFT_SPLIT_COUNT]),
                        new_page_num, [done.new EXCEPT !.count = LEAF_NODE_RIGHT_SPLIT_COUNT]),
                old_page_num, new_page_num, old_max.v)

\* leaf_node_split_insert that sets next_leaf of the old leaf before it
\* copies it to the new leaf, which then names itself
leaf_node_split_insert_cells_swapped(old_max, cursor, key, value) ==
    LET old_page_num == cursor.page_num
        new_page_num == get_unused_page_num(old_max.m)
        m == get_page(old_max.m, new_page_num)
        old_node == Node(m, old_page_num)
        new_node == [initialize_leaf_node(Node(m, new_page_num)) EXCEPT !.parent = node_parent(old_node), !.link = new_page_num]
        done == Redistribute([old_node EXCEPT !.link = new_page_num], new_node, LEAF_NODE_MAX_CELL, cursor, key, value)
    IN IF m.err # "ok" THEN m
       ELSE leaf_node_split_insert_up(
                SetNode(SetNode(m, old_page_num, [done.old EXCEPT !.count = LEAF_NODE_LEFT_SPLIT_COUNT]),
                        new_page_num, [done.new EXCEPT !.count = LEAF_NODE_RIGHT_SPLIT_COUNT]),
                old_page_num, new_page_num, old_max.v)

\* leaf_node_split_insert from "uint32_t new_page_num"
leaf_node_split_insert_cells(old_max, cursor, key, value) ==
    LET old_page_num == cursor.page_num
        new_page_num == get_unused_page_num(old_max.m)
        m == get_page(old_max.m, new_page_num)
        old_node == Node(m, old_page_num)
        new_node == [initialize_leaf_node(Node(m, new_page_num)) EXCEPT !.parent = node_parent(old_node), !.link = leaf_node_next_leaf(old_node)]
        done == Redistribute([old_node EXCEPT !.link = new_page_num], new_node, LEAF_NODE_MAX_CELL, cursor, key, value)
    IN IF m.err # "ok" THEN m
       ELSE leaf_node_split_insert_up(
                SetNode(SetNode(m, old_page_num, [done.old EXCEPT !.count = LEAF_NODE_LEFT_SPLIT_COUNT]),
                        new_page_num, [done.new EXCEPT !.count = LEAF_NODE_RIGHT_SPLIT_COUNT]),
                old_page_num, new_page_num, old_max.v)

\* leaf_node_split_insert
leaf_node_split_insert(m, cursor, key, value) ==
    leaf_node_split_insert_cells(get_node_max_key(get_page(m, cursor.page_num), cursor.page_num, 0), cursor, key, value)

\* leaf_node_insert that writes the new cell behind the last one instead of
\* making room at the cursor
leaf_node_insert_append(m, cursor, key, value) ==
    LET m1 == get_page(m, cursor.page_num)
        node == Node(m1, cursor.page_num)
        num_cell == leaf_node_num_cells(node)
    IN IF m1.err # "ok" THEN m1
       ELSE IF num_cell >= LEAF_NODE_MAX_CELL THEN leaf_node_split_insert(m1, cursor, key, value)
       ELSE SetNode(m1, cursor.page_num, [node EXCEPT !.count = num_cell + 1, !.cells[num_cell + 1] = LeafCell(key, serialize_row(value))])

\* leaf_node_insert that splits a leaf one cell late
leaf_node_insert_late(m, cursor, key, value) ==
    LET m1 == get_page(m, cursor.page_num)
        node == Node(m1, cursor.page_num)
        num_cell == leaf_node_num_cells(node)
    IN IF m1.err # "ok" THEN m1
       ELSE IF num_cell > LEAF_NODE_MAX_CELL THEN leaf_node_split_insert(m1, cursor, key, value)
       ELSE \* cells cell_num..num_cell-1 move one slot right, the new cell takes slot cell_num
            SetNode(m1, cursor.page_num, [node EXCEPT !.count = num_cell + 1, !.cells =
                SubSeq(@, 1, cursor.cell_num) \o <<LeafCell(key, serialize_row(value))>>
                    \o SubSeq(@, cursor.cell_num + 1, num_cell) \o SubSeq(@, num_cell + 2, NumCells)])

\* leaf_node_insert
leaf_node_insert(m, cursor, key, value) ==
    LET m1 == get_page(m, cursor.page_num)
        node == Node(m1, cursor.page_num)
        num_cell == leaf_node_num_cells(node)
    IN IF m1.err # "ok" THEN m1
       ELSE IF num_cell >= LEAF_NODE_MAX_CELL THEN leaf_node_split_insert(m1, cursor, key, value)
       ELSE \* cells cell_num..num_cell-1 move one slot right, the new cell takes slot cell_num
            SetNode(m1, cursor.page_num, [node EXCEPT !.count = num_cell + 1, !.cells =
                SubSeq(@, 1, cursor.cell_num) \o <<LeafCell(key, serialize_row(value))>>
                    \o SubSeq(@, cursor.cell_num + 1, num_cell) \o SubSeq(@, num_cell + 2, NumCells)])

\* ------------------------------------------------------------------ cursor
\* start_table from "void *node"; f is what find_table returned
start_table_cursor(f) ==
    LET m1 == get_page(f.m, f.cursor.page_num)
    IN [m |-> m1, cursor |-> [f.cursor EXCEPT !.end_of_table = (leaf_node_num_cells(Node(m1, f.cursor.page_num)) = 0)]]

\* start_table
start_table(m) == start_table_cursor(find_table(m, 0, 0))

\* cursor_value
cursor_value(m, cursor) == leaf_node_value(Node(m, cursor.page_num), cursor.cell_num)

\* cursor_advance
cursor_advance(m, cursor) ==
    LET m1 == get_page(m, cursor.page_num)
        node == Node(m1, cursor.page_num)
        cell_num == cursor.cell_num + 1
        next_page_num == leaf_node_next_leaf(node)
    IN [m |-> m1, cursor |->
          IF cell_num >= leaf_node_num_cells(node)
          THEN IF next_page_num = 0 THEN Cursor(cursor.page_num, cell_num, TRUE)
               ELSE Cursor(next_page_num, 0, FALSE)
          ELSE Cursor(cursor.page_num, cell_num, FALSE)]

\* ---------------------------------------------------------------- executor
\* execute_insert without the test for the key at the cursor
execute_insert_at_unchecked(f, row_to_insert) ==
    LET m1 == get_page(f.m, f.cursor.page_num)
    IN IF m1.err # "ok" THEN [m |-> m1, result |-> "none"]
       ELSE [m |-> leaf_node_insert(m1, f.cursor, row_to_insert.id, row_to_insert), result |-> "EXECUTE_SUCCESS"]

\* execute_insert from "void *node"; f is what find_table returned.  result
\* is the ExecuteResult; no path returns EXECUTE_TABLE_FULL.
execute_insert_at(f, row_to_insert) ==
    LET m1 == get_page(f.m, f.cursor.page_num)
        node == Node(m1, f.cursor.page_num)
        num_cells == leaf_node_num_cells(node)
    IN IF m1.err # "ok" THEN [m |-> m1, result |-> "none"]
       ELSE IF f.cursor.cell_num < num_cells /\ leaf_node_key(node, f.cursor.cell_num) = row_to_insert.id
            THEN [m |-> m1, result |-> "EXECUTE_DUPLICATE_KEY"]
       ELSE [m |-> leaf_node_insert(m1, f.cursor, row_to_insert.id, row_to_insert), result |-> "EXECUTE_SUCCESS"]

\* execute_insert
execute_insert(m, row_to_insert) == execute_insert_at(find_table(m, 0, row_to_insert.id), row_to_insert)

\* execute_update that copies the username and leaves the email
execute_update_at_username(f, row_to_update) ==
    LET m1 == get_page(f.m, f.cursor.page_num)
        node == Node(m1, f.cursor.page_num)
        cell_num == f.cursor.cell_num
        old == leaf_node_cell(node, cell_num)
        written == LeafCell(old.key, [old.value EXCEPT !.b_username = row_to_update.username])
    IN IF m1.err # "ok" THEN [m |-> m1, result |-> "none"]
       ELSE IF cell_num >= LEAF_NODE_MAX_CELL THEN [m |-> [m1 EXCEPT !.oob = TRUE], result |-> "EXECUTE_SUCCESS"]
       ELSE [m |-> SetNode(m1, f.cursor.page_num, [node EXCEPT !.cells[cell_num + 1] = written]), result |-> "EXECUTE_SUCCESS"]

\* execute_update that serializes the whole row of the statement into the
\* cell, the id with it
execute_update_at_row(f, row_to_update) ==
    LET m1 == get_page(f.m, f.cursor.page_num)
        node == Node(m1, f.cursor.page_num)
        cell_num == f.cursor.cell_num
        old == leaf_node_cell(node, cell_num)
        written == LeafCell(old.key, serialize_row(row_to_update))
    IN IF m1.err # "ok" THEN [m |-> m1, result |-> "none"]
       ELSE IF cell_num >= LEAF_NODE_MAX_CELL
            THEN [m |-> [m1 EXCEPT !.oob = TRUE], result |-> "EXECUTE_SUCCESS"]
       ELSE [m |-> SetNode(m1, f.cursor.page_num, [node EXCEPT !.cells[cell_num + 1] = written]), result |-> "EXECUTE_SUCCESS"]

\* execute_update from "void *node": username and email are copied into the
\* value of the cell the cursor is on, whatever that cell holds
execute_update_at(f, row_to_update) ==
    LET m1 == get_page(f.m, f.cursor.page_num)
        node == Node(m1, f.cursor.page_num)
        cell_num == f.cursor.cell_num
        old == leaf_node_cell(node, cell_num)
        written == LeafCell(old.key, [old.value EXCEPT !.b_username = row_to_update.username, !.b_email = row_to_update.email])
    IN IF m1.err # "ok" THEN [m |-> m1, result |-> "none"]
       ELSE IF cell_num >= LEAF_NODE_MAX_CELL
            THEN \* the slot past the last cell: the email field ends past the page buffer
                 [m |-> [m1 EXCEPT !.oob = TRUE], result |-> "EXECUTE_SUCCESS"]
       ELSE [m |-> SetNode(m1, f.cursor.page_num, [node EXCEPT !.cells[cell_num + 1] = written]), result |-> "EXECUTE_SUCCESS"]

\* execute_update
execute_update(m, row_to_update) == execute_update_at(find_table(m, 0, row_to_update.id), row_to_update)

\* execute_delete that lowers the count and moves no cell
execute_delete_at_last(f, row_key) ==
    LET m1 == get_page(f.m, f.cursor.page_num)
        node == Node(m1, f.cursor.page_num)
        num_cell == leaf_node_num_cells(node)
    IN IF m1.err # "ok" THEN [m |-> m1, result |-> "none"]
       ELSE IF f.cursor.cell_num >= num_cell THEN [m |-> m1, result |-> "EXECUTE_NOT_FOUND"]
       ELSE [m |-> SetNode(m1, f.cursor.page_num, [node EXCEPT !.count = num_cell - 1]), result |-> "EXECUTE_SUCCESS"]

\* execute_delete from "void *node"
execute_delete_at(f, row_key) ==
    LET m1 == get_page(f.m, f.cursor.page_num)
        node == Node(m1, f.cursor.page_num)
        num_cell == leaf_node_num_cells(node)
        cell_num == f.cursor.cell_num
    IN IF m1.err # "ok" THEN [m |-> m1, result |-> "none"]
       ELSE IF cell_num >= num_cell THEN [m |-> m1, result |-> "EXECUTE_NOT_FOUND"]
       ELSE \* cells cell_num+1..num_cell-1 move one slot left; slot num_cell-1 keeps its bytes
            [m |-> SetNode(m1, f.cursor.page_num, [node EXCEPT !.count = num_cell - 1, !.cells =
                     SubSeq(@, 1, cell_num) \o SubSeq(@, cell_num + 2, num_cell) \o SubSeq(@, num_cell, NumCells)]),
             result |-> "EXECUTE_SUCCESS"]

\* execute_delete
execute_delete(m, row_key) == execute_delete_at(find_table(m, 0, row_key), row_key)

\* a scan longer than every cell of every page never ends
SelectFuel == (TABLE_MAX_PAGES + 1) * LEAF_NODE_MAX_CELL + 1

\* the loop of execute_select after some passes: the pager, the cursor and
\* the rows printed so far
SelectState(a, rows) == [m |-> a.m, cursor |-> a.cursor, rows |-> rows]

\* the body of the loop from "deserialize_row": the row is printed and the
\* cursor advanced; m1 is the pager after cursor_value fetched the page
SelectBody(m1, s) == SelectState(cursor_advance(m1, s.cursor), Append(s.rows, deserialize_row(cursor_value(m1, s.cursor))))

\* one pass of the loop body
SelectStep(s) == SelectBody(get_page(s.m, s.cursor.page_num), s)

\* the loop has ended: end_of_table, or the process is gone
SelectDone(s) == s.m.err # "ok" \/ s.cursor.end_of_table

RECURSIVE SelectLoop(_, _)
\* while (!cursor->end_of_table): at most n passes, taken half by half
SelectLoop(s, n) ==
    IF SelectDone(s) THEN s
    ELSE IF n = 1 THEN SelectStep(s)
    ELSE SelectLoop(SelectLoop(s, n \div 2), n - (n \div 2))

\* what the loop leaves: a loop that has not ended after SelectFuel passes never ends
SelectEnd(s) == [m |-> IF SelectDone(s) THEN s.m ELSE Fail(s.m, "loop"), rows |-> s.rows]

\* execute_select from the loop; s is what start_table returned
execute_select_from(s) == SelectEnd(SelectLoop(SelectState(s, <<>>), SelectFuel))

\* execute_select
execute_select(m) == execute_select_from(start_table(m))

\* ------------------------------------------------------------ open / close
\* db_open that initializes page 0 whatever the file holds
db_open_init(disk) ==
    LET m == Machine(page_open(disk), disk)
        m1 == get_page(m, 0)
    IN SetNode(m1, 0, [initialize_leaf_node(Node(m1, 0)) EXCEPT !.is_root = 1, !.parent = 0])

\* db_open: the machine of the new process
db_open(disk) ==
    LET m == Machine(page_open(disk), disk)
        m1 == get_page(m, 0)
    IN IF m.num_pages = 0
       THEN SetNode(m1, 0, [initialize_leaf_node(Node(m1, 0)) EXCEPT !.is_root = 1, !.parent = 0])
       ELSE m

\* a page of a hole that a write past the end of the file leaves
ZeroPage == [node_type |-> 0, is_root |-> 0, parent |-> 0, count |-> 0, link |-> 0, cells |-> Fill(NumCells, InternalCell(0, 0))]

\* the first n pages of the file once the pages in flushed are written
FileAfter(m, flushed, n) ==
    [i \in 1..n |-> IF (i - 1) \in flushed THEN m.pages[i]
                    ELSE IF i <= Len(m.disk) THEN m.disk[i]
                    ELSE ZeroPage]

\* db_close whose loop stops one page early
db_close_short(m) ==
    LET flushed == {i \in 0..(m.num_pages - 2) : i \in PageSlots /\ m.pages[i + 1] # NULL}
        top == IF flushed = {} THEN 0 ELSE 1 + CHOOSE i \in flushed : \A j \in flushed : j <= i
        newlen == IF top > Len(m.disk) THEN top ELSE Len(m.disk)
    IN FileAfter(m, flushed, newlen)

\* pager_flush of every cached page below num_pages (db_close): the file
\* after the writes at offset page_num * PAGE_SIZE
db_close(m) ==
    LET flushed == {i \in 0..(m.num_pages - 1) : i \in PageSlots /\ m.pages[i + 1] # NULL}
        top == IF flushed = {} THEN 0 ELSE 1 + CHOOSE i \in flushed : \A j \in flushed : j <= i
        newlen == IF top > Len(m.disk) THEN top ELSE Len(m.disk)
    IN FileAfter(m, flushed, newlen)

\* ------------------------------------------------------------ state machine
VARIABLES file, pager, running, opens, updates, deletes, last, amap, durable

vars == <<file, pager, running, opens, updates, deletes, last, amap, durable>>

\* no process: nothing of a Pager exists
NoPager == [file_length |-> 0, num_pages |-> 0, pages |-> Fill(TABLE_MAX_PAGES + 1, NULL)]

None == <<>>

\* the sorted map the statements describe
AbsInsert(a, id, v) == IF id \in DOMAIN a /\ a[id] = None THEN [a EXCEPT ![id] = v] ELSE a

AbsUpdate(a, id, v) == IF a[id] = None THEN a ELSE [a EXCEPT ![id] = v]

AbsDelete(a, id) == [a EXCEPT ![id] = None]

Stored(a) == {id \in DOMAIN a : a[id] # None}

RECURSIVE RowsFrom(_, _)
RowsFrom(a, ids) ==
    IF ids = {} THEN <<>>
    ELSE LET lo == CHOOSE i \in ids : \A j \in ids : i <= j
         IN <<Row(lo, a[lo][1], a[lo][2])>> \o RowsFrom(a, ids \ {lo})

\* the rows of the map in ascending id order
ExpectedRows(a) == RowsFrom(a, Stored(a))

\* the machine of the running process
Now == Machine(pager, file)

\* how a statement can end the process: exit(EXIT_FAILURE) reached, or one
\* of the outcomes of reading memory the program never wrote or of touching
\* memory outside its object
Crashes(m) == (IF m.err # "ok" THEN {m.err} ELSE {}) \cup (IF m.garbage THEN {"exit"} ELSE {}) \cup (IF m.oob THEN {"ub"} ELSE {})

\* the statement returned to the loop of main
Returned(op, r, a) ==
    /\ r.m.err = "ok"
    /\ pager' = PagerOf(r.m)
    /\ last' = [op |-> op, result |-> r.result]
    /\ amap' = a
    /\ UNCHANGED <<file, running, opens, durable>>

\* the process ended inside the statement: nothing was flushed
Crashed(op, r) ==
    /\ \E why \in Crashes(r.m) : last' = [op |-> op, result |-> why]
    /\ pager' = NoPager
    /\ running' = FALSE
    /\ amap' = durable
    /\ UNCHANGED <<file, opens, durable>>

\* one statement of the loop of main: it returns, or the process ends in it
Statement(op, r, a) == Returned(op, r, a) \/ Crashed(op, r)

Init ==
    /\ file = <<>>
    /\ pager = NoPager
    /\ running = FALSE
    /\ opens = 0
    /\ updates = 0
    /\ deletes = 0
    /\ last = [op |-> "none", result |-> "none"]
    /\ amap = [id \in Ids |-> None]
    /\ durable = [id \in Ids |-> None]

\* main: db_open(filename)
Open ==
    /\ ~running
    /\ opens < MaxOpens
    /\ LET m == db_open(file)
       IN /\ m.err = "ok"
          /\ pager' = PagerOf(m)
    /\ running' = TRUE
    /\ opens' = opens + 1
    /\ last' = [op |-> "open", result |-> "ok"]
    /\ UNCHANGED <<file, updates, deletes, amap, durable>>

\* .exit: db_close(table), exit; last tells a session that ran no statement
Close ==
    /\ running
    /\ file' = db_close(Now)
    /\ pager' = NoPager
    /\ running' = FALSE
    /\ last' = [op |-> "close", result |-> IF last.op = "open" THEN "no statement" ELSE "ok"]
    /\ durable' = amap
    /\ UNCHANGED <<opens, updates, deletes, amap>>

Insert(ids) ==
    /\ running
    /\ \E id \in ids : Statement("insert", execute_insert(Now, Row(id, ValOf(id)[1], ValOf(id)[2])), AbsInsert(amap, id, ValOf(id)))
    /\ UNCHANGED <<updates, deletes>>

Update(ids) ==
    /\ running
    /\ updates < MaxUpdates
    /\ \E id \in ids, v \in Vals : Statement("update", execute_update(Now, Row(id, v[1], v[2])), AbsUpdate(amap, id, v))
    /\ updates' = updates + 1
    /\ UNCHANGED deletes

Delete(ids) ==
    /\ running
    /\ deletes < MaxDeletes
    /\ \E id \in ids : Statement("delete", execute_delete(Now, id), AbsDelete(amap, id))
    /\ deletes' = deletes + 1
    /\ UNCHANGED updates

\* execute_select always returns EXECUTE_SUCCESS
SelectResult(s) == [m |-> s.m, result |-> "EXECUTE_SUCCESS"]

Select ==
    /\ running
    /\ Statement("select", SelectResult(execute_select(Now)), amap)
    /\ UNCHANGED <<updates, deletes>>

Next == Open \/ Close \/ Insert(Keys) \/ Update(Keys) \/ Delete(Keys) \/ Select

Spec == Init /\ [][Next]_vars

\* a session that only inserts and selects
NextInsert == Open \/ Close \/ Insert(Ids) \/ Select

SpecInsert == Init /\ [][NextInsert]_vars

\* the rows a select prints in the current state
SelectRows == execute_select(Now).rows

\* the ids of the rows a select prints
RowIds(rows) == {rows[i].id : i \in 1..Len(rows)}

\* the statement ran to its end on defined behaviour only
Clean(m) == m.err = "ok" /\ ~m.garbage /\ ~m.oob

\* m1 holds the pages of m0, some of them fetched from the file meanwhile
SamePages(m0, m1) ==
    /\ m1.num_pages = m0.num_pages
    /\ m1.file_length = m0.file_length
    /\ \A i \in 1..Len(m0.pages) :
          \/ m1.pages[i] = m0.pages[i]
          \/ m0.pages[i] = NULL /\ i <= Len(m0.disk) /\ m1.pages[i] = m0.disk[i]

\* page page_num of the table: the cached copy, else the bytes of the file
PageAt(m, page_num) ==
    IF m.pages[page_num + 1] # NULL THEN m.pages[page_num + 1]
    ELSE IF page_num < Len(m.disk) THEN m.disk[page_num + 1]
    ELSE FreshPage

\* the page numbers of the table
TablePages(m) == 0..(m.num_pages - 1)

\* the keys of the cells that leaf page page_num counts
KeysIn(m, page_num) == {leaf_node_key(PageAt(m, page_num), i) : i \in 0..(leaf_node_num_cells(PageAt(m, page_num)) - 1)}

\* the leaf pages that hold key
Holders(m, key) == {pn \in TablePages(m) : get_node_type(PageAt(m, pn)) = LEAF_NODE /\ key \in KeysIn(m, pn)}

\* the keys the leaves of the table hold
LeafKeys(m) == UNION {KeysIn(m, pn) : pn \in {q \in TablePages(m) : get_node_type(PageAt(m, q)) = LEAF_NODE}}

\* the root is an internal node whose children are internal nodes
TwoLevels(m) ==
    /\ get_node_type(PageAt(m, 0)) = INTERNAL_NODE
    /\ get_node_type(PageAt(m, internal_node_right_child(PageAt(m, 0)))) = INTERNAL_NODE

\* the root is an internal node
OneLevel(m) == get_node_type(PageAt(m, 0)) = INTERNAL_NODE

\* ---------------------------------------------------------------- the tree
\* page_num is a page of the table and holds an internal node / a leaf
IsInternal(m, page_num) == page_num \in TablePages(m) /\ get_node_type(PageAt(m, page_num)) = INTERNAL_NODE

IsLeaf(m, page_num) == page_num \in TablePages(m) /\ get_node_type(PageAt(m, page_num)) = LEAF_NODE

\* what internal_node_child hands out for child_num 0..num_keys of the
\* internal node on page_num: the child of cell child_num, and the right
\* child for child_num = num_keys; element i + 1 is child number i
Children(m, page_num) ==
    LET node == PageAt(m, page_num)
        num_keys == internal_node_num_keys(node)
    IN [i \in 1..(num_keys + 1) |-> IF i <= num_keys THEN internal_node_cell(node, i - 1).child ELSE internal_node_right_child(node)]

RECURSIVE Reach(_, _)
\* the pages reached from the pages of S along child pointers that stay in
\* the table, those of S included
Reach(m, S) ==
    LET below == UNION {{Children(m, pn)[i] : i \in DOMAIN Children(m, pn)} \cap TablePages(m) : pn \in {q \in S : IsInternal(m, q)}}
    IN IF below \subseteq S THEN S ELSE Reach(m, S \cup below)

\* the nodes of the tree: what find_table can reach from the root, page 0
TreePages(m) == Reach(m, {0})

TreeLeaves(m) == {pn \in TreePages(m) : IsLeaf(m, pn)}

TreeInternals(m) == {pn \in TreePages(m) : IsInternal(m, pn)}

\* the leaf-order invariant: the keys of cells 0..num_cells-1 of every leaf
\* ascend strictly, and no key is held by two leaves
LeafOrder(m) ==
    /\ \A pn \in TreeLeaves(m) : \A i, j \in 0..(leaf_node_num_cells(PageAt(m, pn)) - 1) :
           i < j => leaf_node_key(PageAt(m, pn), i) < leaf_node_key(PageAt(m, pn), j)
    /\ \A p, q \in TreeLeaves(m) : p # q => KeysIn(m, p) \cap KeysIn(m, q) = {}

\* the largest key the leaves at and below page_num hold, G when they hold none
MaxKeyBelow(m, page_num) ==
    LET keys == UNION {KeysIn(m, q) : q \in {r \in Reach(m, {page_num}) : IsLeaf(m, r)}}
    IN IF keys = {} THEN G ELSE CHOOSE k \in keys : \A j \in keys : j <= k

\* the separator-key invariant: key i of every internal node is the largest
\* key below child i, and the largest key below the right child is greater
\* than the last key
SeparatorKeys(m) ==
    \A pn \in TreeInternals(m) :
        LET node == PageAt(m, pn)
            num_keys == internal_node_num_keys(node)
        IN /\ \A i \in 0..(num_keys - 1) : internal_node_key(node, i) = MaxKeyBelow(m, Children(m, pn)[i + 1])
           /\ num_keys >= 1 => MaxKeyBelow(m, internal_node_right_child(node)) > internal_node_key(node, num_keys - 1)

\* the parent-pointer invariant: every internal node of the tree lists
\* num_keys + 1 different pages of the table, and each of them names that
\* node as its parent; a page listed by two nodes would name both
ParentPointers(m) ==
    \A pn \in TreeInternals(m) :
        /\ Cardinality({Children(m, pn)[i] : i \in DOMAIN Children(m, pn)}) = internal_node_num_keys(PageAt(m, pn)) + 1
        /\ \A i \in DOMAIN Children(m, pn) :
               /\ Children(m, pn)[i] \in TablePages(m) \ {0}
               /\ node_parent(PageAt(m, Children(m, pn)[i])) = pn

RECURSIVE Leftmost(_, _, _)
\* the page reached from page_num by child(0) as long as the node is
\* internal, in at most fuel steps
Leftmost(m, page_num, fuel) ==
    IF fuel = 0 \/ ~IsInternal(m, page_num) THEN page_num
    ELSE Leftmost(m, Children(m, page_num)[1], fuel - 1)

RECURSIVE Chain(_, _, _)
\* the pages visited from page_num by next_leaf, after those of seen; the
\* walk ends at next_leaf = 0, and it ends with G when it comes to a page
\* that is no leaf of the table or that it has visited
Chain(m, page_num, seen) ==
    IF ~IsLeaf(m, page_num) \/ \E i \in DOMAIN seen : seen[i] = page_num THEN Append(seen, G)
    ELSE IF leaf_node_next_leaf(PageAt(m, page_num)) = 0 THEN Append(seen, page_num)
    ELSE Chain(m, leaf_node_next_leaf(PageAt(m, page_num)), Append(seen, page_num))

\* the sibling-chain invariant: the walk from the leftmost leaf visits the
\* leaves of the tree, each once, every key of a leaf below every key of the
\* leaves after it
SiblingChain(m) ==
    LET chain == Chain(m, Leftmost(m, 0, m.num_pages), <<>>)
    IN /\ {chain[i] : i \in DOMAIN chain} = TreeLeaves(m)
       /\ \A i, j \in DOMAIN chain : i < j =>
              \A a \in KeysIn(m, chain[i]), b \in KeysIn(m, chain[j]) : a < b

RECURSIVE PathLengths(_, _, _)
\* the numbers of internal nodes on the paths from page_num to the leaves
\* below it; G stands for a path that leaves the table or is longer than fuel
PathLengths(m, page_num, fuel) ==
    IF IsLeaf(m, page_num) THEN {0}
    ELSE IF fuel = 0 \/ ~IsInternal(m, page_num) THEN {G}
    ELSE UNION {{IF d = G THEN G ELSE d + 1 : d \in PathLengths(m, Children(m, page_num)[i], fuel - 1)} : i \in DOMAIN Children(m, page_num)}

\* the capacity invariant: no leaf of the table holds more than
\* LEAF_NODE_MAX_CELL cells, and no internal node of the tree holds more than
\* INTERNAL_NODE_MAX_CELL keys or has INVALID_PAGE_NUM for its right child
Capacity(m) ==
    /\ \A pn \in TablePages(m) : IsLeaf(m, pn) => leaf_node_num_cells(PageAt(m, pn)) <= LEAF_NODE_MAX_CELL
    /\ \A pn \in TreeInternals(m) :
           /\ internal_node_num_keys(PageAt(m, pn)) <= INTERNAL_NODE_MAX_CELL
           /\ internal_node_right_child(PageAt(m, pn)) # INVALID_PAGE_NUM

RECURSIVE Listed(_, _)
\* the number of children the internal nodes of S list
Listed(m, S) ==
    IF S = {} THEN 0
    ELSE LET pn == CHOOSE q \in S : TRUE
         IN internal_node_num_keys(PageAt(m, pn)) + 1 + Listed(m, S \ {pn})

\* no two nodes of the tree are on one page: the pages of the tree are as
\* many as the root and the children the internal nodes list, so that no
\* page is listed twice and the root is no child
NoSharedPage(m) == Cardinality(TreePages(m)) = 1 + Listed(m, TreeInternals(m))

\* find_table(key) ends on defined behaviour with a cursor in a leaf of the
\* tree: on the cell of key when a leaf holds key, else on the slot where
\* key belongs, with smaller keys before it in the leaf and in the leaves
\* before it in the chain, and larger keys from it on and in the leaves after
FindsSlot(m, key) ==
    LET f == find_table(m, 0, key)
        page_num == f.cursor.page_num
        cell_num == f.cursor.cell_num
        node == PageAt(m, page_num)
        chain == Chain(m, Leftmost(m, 0, m.num_pages), <<>>)
    IN /\ Clean(f.m)
       /\ page_num \in TreeLeaves(m)
       /\ cell_num \in 0..leaf_node_num_cells(node)
       /\ IF key \in LeafKeys(m)
          THEN cell_num < leaf_node_num_cells(node) /\ leaf_node_key(node, cell_num) = key
          ELSE /\ \A i \in 0..(leaf_node_num_cells(node) - 1) :
                      IF i < cell_num THEN leaf_node_key(node, i) < key ELSE leaf_node_key(node, i) > key
               /\ \E at \in DOMAIN chain :
                      /\ chain[at] = page_num
                      /\ \A i \in DOMAIN chain : \A k \in KeysIn(m, chain[i]) :
                             (i < at => k < key) /\ (i > at => k > key)

RECURSIVE SelectCursors(_, _)
\* the cursors the loop of execute_select tests and finds not at the end of
\* the table, in at most n passes from s
SelectCursors(s, n) ==
    IF n = 0 \/ SelectDone(s) THEN {}
    ELSE {s.cursor} \cup SelectCursors(SelectStep(s), n - 1)

\* start_table gives a cursor on cell 0 of the leftmost leaf, at the end of
\* the table exactly when no leaf holds a row
StartsAtFirstRow(m) ==
    LET s == start_table(m)
    IN /\ Clean(s.m)
       /\ s.cursor.page_num = Leftmost(m, 0, m.num_pages)
       /\ s.cursor.cell_num = 0
       /\ s.cursor.end_of_table <=> LeafKeys(m) = {}

\* the bulk load stops when the table has this many pages
LoadPages == TABLE_MAX_PAGES - 3

\* the ids the bulk load has stored
Loaded == LeafKeys(Now) \ Keys

\* the id the bulk load inserts next: the ids come in descending order
NextLoad == IF Loaded = {} THEN LoadTop ELSE (CHOOSE i \in Loaded : \A j \in Loaded : i <= j) - 1

\* one insert statement of a bulk load; amap follows the ids of Ids only
Load ==
    /\ running
    /\ pager.num_pages < LoadPages
    /\ NextLoad > MaxKey
    /\ Statement("insert", execute_insert(Now, Row(NextLoad, ValOf(NextLoad)[1], ValOf(NextLoad)[2])), amap)
    /\ UNCHANGED <<updates, deletes>>

\* ids above every id of the bulk load
TopKeys == (LoadTop + 1)..(LoadTop + 2)

\* an insert statement into the loaded table, at its left or right end
FullInsert ==
    /\ pager.num_pages >= LoadPages
    /\ Insert(Keys \cup TopKeys)

\* a session that fills the table up to the last pages and then inserts
NextFull == Open \/ Close \/ Load \/ FullInsert \/ Select

SpecFull == Init /\ [][NextFull]_vars

\* an ascending bulk load leaves this gap between its ids
Stride == 2

\* the id an ascending bulk load inserts next
NextUp == IF Loaded = {} THEN LoadTop ELSE (CHOOSE i \in Loaded : \A j \in Loaded : j <= i) + Stride

\* the pages of the tree an ascending load builds when its root has got
\* INTERNAL_NODE_MAX_CELL + 1 internal children
MidPages == 14

\* one insert statement of an ascending bulk load, which stops at a table of
\* MidPages pages
LoadUp ==
    /\ running
    /\ pager.num_pages < MidPages
    /\ Statement("insert", execute_insert(Now, Row(NextUp, ValOf(NextUp)[1], ValOf(NextUp)[2])), amap)
    /\ UNCHANGED <<updates, deletes>>

\* ids in and between those of the second child of that root
MidKeys == (LoadTop + 3 * Stride)..(LoadTop + 8 * Stride)

\* an insert statement into the middle of the loaded tree
Mid ==
    /\ pager.num_pages >= MidPages
    /\ Insert(MidKeys)

\* a delete statement in the middle of the loaded tree
MidDelete ==
    /\ pager.num_pages >= MidPages
    /\ Delete(MidKeys)

\* a session that loads ids in ascending order until the root is full and
\* then inserts ids between them and deletes one
NextMid == Open \/ LoadUp \/ Mid \/ MidDelete

SpecMid == Init /\ [][NextMid]_vars

\* one id more than a root with INTERNAL_NODE_MAX_CELL + 1 full leaves holds
TallIds == 1..(LEAF_NODE_MAX_CELL * (INTERNAL_NODE_MAX_CELL + 1) + 1)

\* a session that inserts the ids of TallIds into an empty table, in any order
NextTall == Open \/ Insert(TallIds)

SpecTall == Init /\ [][NextTall]_vars

KeepsACell(m, key) == \A pn \in Holders(m, key) : pn = 0 \/ leaf_node_num_cells(PageAt(m, pn)) >= 2

C4_DeleteAbsentRemovesNothing ==
    running =>
        \A id \in Ids \ LeafKeys(Now) :
            LET r == execute_delete(Now, id)
            IN /\ r.result = "EXECUTE_NOT_FOUND"
               /\ execute_select(r.m).rows = SelectRows

\* C5: an update of an id that no leaf holds returns EXECUTE_NOT_FOUND and
\* changes no page, so that a select prints the same rows after it.
C5_UpdateAbsentChangesNothing ==
    running =>
        \A id \in Ids \ LeafKeys(Now) : \A v \in Vals :
            LET r == execute_update(Now, Row(id, v[1], v[2]))
            IN /\ r.result = "EXECUTE_NOT_FOUND"
               /\ Clean(r.m)
               /\ SamePages(Now, r.m)
               /\ execute_select(r.m).rows = SelectRows

\* rows with the username and email of the row of id replaced by v
RowsWith(rows, id, v) == [i \in 1..Len(rows) |-> IF rows[i].id = id THEN Row(id, v[1], v[2]) ELSE rows[i]]

\* the cell of a leaf that holds key
CellOf(node, key) == CHOOSE i \in 0..(leaf_node_num_cells(node) - 1) : leaf_node_key(node, i) = key

C7_ReopenPrintsSameRows ==
    running =>
        LET reopened == db_open(db_close(Now))
        IN /\ reopened.err = "ok"
           /\ Clean(execute_select(reopened).m)
           /\ execute_select(reopened).rows = SelectRows

\* a select has returned in a second session whose pages came from the
\* file that the close of the first session wrote
C7_Witness ==
    /\ running
    /\ opens = 2
    /\ last = [op |-> "select", result |-> "EXECUTE_SUCCESS"]
    /\ amap = durable
    /\ Stored(durable) = Ids
    /\ TwoLevels(Now)
    /\ \E pn \in TablePages(Now) : pager.pages[pn + 1] = NULL
    /\ SelectRows = ExpectedRows(durable)

\* C8 as stated: a session that opens the file and closes it with no
\* statement in between leaves every file as it was, the file that did not
\* exist or was empty included.
C8_OpenCloseKeepsEveryFile ==
    [][(last.op = "open" /\ last'.op = "close") => file' = file]_vars

\* C8, amended: opening and closing with no insert, update or delete in
\* between (with or without a select) leaves a file that holds pages as it
\* was; the file that did not exist or was empty is one page long after the
\* close, and the page is a root leaf without cells.
C8_OpenCloseKeepsFileWithPages ==
    ~running =>
        LET m == db_open(file)
        IN /\ m.err = "ok"
           /\ file # <<>> =>
                 /\ db_close(m) = file
                 /\ db_close(execute_select(m).m) = file
           /\ file = <<>> =>
                 /\ Len(db_close(m)) = 1
                 /\ db_close(execute_select(m).m) = db_close(m)
                 /\ get_node_type(db_close(m)[1]) = LEAF_NODE
                 /\ is_root_node(db_close(m)[1])
                 /\ leaf_node_num_cells(db_close(m)[1]) = 0

\* a session that ran no statement has closed a file of several pages
C8_Witness ==
    /\ ~running
    /\ last = [op |-> "close", result |-> "no statement"]
    /\ Len(file) >= 3
    /\ file = db_close(db_open(file))

\* the statement asked get_page for a page number that is no index of
\* Pager.pages: page TABLE_MAX_PAGES was handed out, or a larger one refused
BeyondLastPage(m) == m.num_pages > TABLE_MAX_PAGES \/ m.err = "exit_page_bound"

\* C9: an insert that needs a page number beyond the last of the
\* TABLE_MAX_PAGES pages returns EXECUTE_TABLE_FULL to the loop of main,
\* the process goes on, and a select then prints every row it printed before.
C9_FullTableInsertReturnsTableFull ==
    running =>
        \A id \in Keys \cup TopKeys :
            LET r == execute_insert(Now, Row(id, ValOf(id)[1], ValOf(id)[2]))
            IN BeyondLastPage(r.m) =>
                  /\ r.result = "EXECUTE_TABLE_FULL"
                  /\ Clean(r.m)
                  /\ execute_select(r.m).rows = SelectRows

\* C10: get_page refuses the page number TABLE_MAX_PAGES and every larger
\* one, so that the slot behind the last slot of Pager.pages is never
\* written and num_pages never exceeds TABLE_MAX_PAGES.
C10_GetPageRefusesTableMaxPages ==
    running =>
        /\ pager.num_pages >= TABLE_MAX_PAGES => get_page(Now, get_unused_page_num(Now)).err = "exit_page_bound"
        /\ pager.pages[TABLE_MAX_PAGES + 1] = NULL
        /\ pager.num_pages <= TABLE_MAX_PAGES

C12_KeysAreSubtreeMaxima ==
    running => SeparatorKeys(Now)

\* C13: after every insert that returned, every node of the tree below the
\* root is listed exactly once among the children of the internal nodes
\* (cells 0..num_keys-1 and right child), and its parent field holds the
\* page of the node that lists it.
C13_ParentListsChildOnce ==
    running => ParentPointers(Now)

C15_PathsFromRootEquallyLong ==
    running => \E d \in 0..Now.num_pages : PathLengths(Now, 0, Now.num_pages) = {d}

\* a delete has run and the last insert split the root of a tree of three
\* levels
C15_Witness ==
    /\ running
    /\ deletes = MaxDeletes
    /\ last = [op |-> "insert", result |-> "EXECUTE_SUCCESS"]
    /\ PathLengths(Now, 0, Now.num_pages) = {3}

\* C16: between statements page 0 is the root: its is_root byte is set and
\* its parent field is 0, and no other page of the table has the is_root byte
\* set; this holds after the split of a leaf root and of an internal root.
\* find_table and create_new_root are always handed page 0, the value db_open
\* stores in root_page_num, which nothing else assigns.
C16_PageZeroIsTheOnlyRoot ==
    running =>
        /\ is_root_node(PageAt(Now, 0))
        /\ node_parent(PageAt(Now, 0)) = 0
        /\ \A pn \in TablePages(Now) \ {0} : ~is_root_node(PageAt(Now, pn))

\* the last insert split an internal root, in a session that began with a
\* file of an earlier one
C16_Witness ==
    /\ running
    /\ opens = MaxOpens
    /\ last = [op |-> "insert", result |-> "EXECUTE_SUCCESS"]
    /\ PathLengths(Now, 0, Now.num_pages) = {2}
    /\ is_root_node(PageAt(Now, 0))

\* C17: between statements every leaf holds at most LEAF_NODE_MAX_CELL cells,
\* and every internal node of the tree holds at most INTERNAL_NODE_MAX_CELL
\* keys and has a right child other than INVALID_PAGE_NUM.
C17_NodesWithinCapacity ==
    running => Capacity(Now)

\* an insert has returned in a tree of three levels that has a full internal
\* node and a full leaf
C17_Witness ==
    /\ running
    /\ last = [op |-> "insert", result |-> "EXECUTE_SUCCESS"]
    /\ PathLengths(Now, 0, Now.num_pages) = {2}
    /\ \E pn \in TreeInternals(Now) : internal_node_num_keys(PageAt(Now, pn)) = INTERNAL_NODE_MAX_CELL
    /\ \E pn \in TreeLeaves(Now) : leaf_node_num_cells(PageAt(Now, pn)) = LEAF_NODE_MAX_CELL

\* the n lowest elements of a set of keys
Lowest(keys, n) == {k \in keys : Cardinality({j \in keys : j < k}) < n}

\* C18: when the root is a full leaf, the insert of any id it does not hold
\* returns with a table of three pages: page 0 is an internal root with one
\* key, child(0) is a leaf with the LEAF_NODE_LEFT_SPLIT_COUNT lowest of the
\* keys, the right child a leaf with the LEAF_NODE_RIGHT_SPLIT_COUNT highest,
\* key(0) is the largest key of the left leaf, next_leaf of the left leaf is
\* the page of the right leaf and next_leaf of the right leaf is 0.
C18_SplitOfFullRootLeaf ==
    running /\ IsLeaf(Now, 0) /\ leaf_node_num_cells(PageAt(Now, 0)) = LEAF_NODE_MAX_CELL =>
        \A id \in Ids \ KeysIn(Now, 0) :
            LET r == execute_insert(Now, Row(id, ValOf(id)[1], ValOf(id)[2]))
                keys == KeysIn(Now, 0) \cup {id}
                root == PageAt(r.m, 0)
                left == internal_node_cell(root, 0).child
                right == internal_node_right_child(root)
            IN /\ r.result = "EXECUTE_SUCCESS"
               /\ Clean(r.m)
               /\ r.m.num_pages = 3
               /\ IsInternal(r.m, 0)
               /\ internal_node_num_keys(root) = 1
               /\ IsLeaf(r.m, left) /\ IsLeaf(r.m, right) /\ left # right
               /\ LeafOrder(r.m)
               /\ leaf_node_num_cells(PageAt(r.m, left)) = LEAF_NODE_LEFT_SPLIT_COUNT
               /\ KeysIn(r.m, left) = Lowest(keys, LEAF_NODE_LEFT_SPLIT_COUNT)
               /\ leaf_node_num_cells(PageAt(r.m, right)) = LEAF_NODE_RIGHT_SPLIT_COUNT
               /\ KeysIn(r.m, right) = keys \ Lowest(keys, LEAF_NODE_LEFT_SPLIT_COUNT)
               /\ internal_node_key(root, 0) = MaxKeyBelow(r.m, left)
               /\ leaf_node_next_leaf(PageAt(r.m, left)) = right
               /\ leaf_node_next_leaf(PageAt(r.m, right)) = 0

\* the insert that split the full root leaf has returned
C18_Witness ==
    /\ running
    /\ last = [op |-> "insert", result |-> "EXECUTE_SUCCESS"]
    /\ Cardinality(Stored(amap)) = LEAF_NODE_MAX_CELL + 1
    /\ Now.num_pages = 3
    /\ internal_node_num_keys(PageAt(Now, 0)) = 1

\* C19: when LEAF_NODE_MAX_CELL * (INTERNAL_NODE_MAX_CELL + 1) + 1 different
\* ids have been inserted into an empty table, in whatever order, the tree
\* has three levels (the children of the root are internal nodes and their
\* children are leaves), and the leaf-order, separator-key, parent-pointer,
\* sibling-chain and capacity invariants hold.
C19_ThreeLevelsAfterTallIds ==
    running /\ LeafKeys(Now) = TallIds =>
        /\ PathLengths(Now, 0, Now.num_pages) = {2}
        /\ LeafOrder(Now)
        /\ SeparatorKeys(Now)
        /\ ParentPointers(Now)
        /\ SiblingChain(Now)
        /\ Capacity(Now)

\* the insert of the last of the ids has returned
C19_Witness ==
    /\ running
    /\ last = [op |-> "insert", result |-> "EXECUTE_SUCCESS"]
    /\ LeafKeys(Now) = TallIds
    /\ PathLengths(Now, 0, Now.num_pages) = {2}

\* C20: a close at any point of a session leaves a file whose length is
\* PAGE_SIZE times the num_pages of the pager at the close, a whole number of
\* pages, so that the next db_open accepts the file and page_open starts with
\* num_pages = file length / PAGE_SIZE; a first session that inserted one id
\* leaves a file of PAGE_SIZE bytes.
C20_CloseLeavesWholePages ==
    running =>
        LET closed == db_close(Now)
            file_length == page_open(closed).file_length
        IN /\ file_length = PAGE_SIZE * Now.num_pages
           /\ file_length % PAGE_SIZE = 0
           /\ db_open(closed).err = "ok"
           /\ page_open(closed).num_pages = file_length \div PAGE_SIZE
           /\ page_open(closed).num_pages = Now.num_pages
           /\ file = <<>> /\ deletes = 0 /\ Cardinality(LeafKeys(Now)) = 1 => file_length = PAGE_SIZE

\* a second session, opened on the file of the first, has grown the table
\* and was closed
C20_Witness ==
    /\ ~running
    /\ opens = MaxOpens
    /\ last = [op |-> "close", result |-> "ok"]
    /\ Len(file) >= 3
    /\ Stored(durable) = Ids

\* C21: the file changes in no step but the close of a session: no insert,
\* update, delete or select, and no end of the process inside a statement,
\* changes its pages or its length.  The close writes every cached page n
\* as page n of the file and leaves the other pages of the file as they were.
C21_OnlyCloseWritesTheFile ==
    [][/\ file' # file => running /\ ~running' /\ last'.op = "close"
       /\ running /\ ~running' /\ last'.op = "close" =>
              /\ \A n \in PageSlots : pager.pages[n + 1] # NULL => n < Len(file') /\ file'[n + 1] = pager.pages[n + 1]
              /\ \A n \in 0..(Len(file) - 1) : pager.pages[n + 1] = NULL => n < Len(file') /\ file'[n + 1] = file[n + 1]]_vars

\* a session that ran an update and a delete on a table of three pages was
\* closed, and its file is not the file it opened
C21_Witness ==
    /\ ~running
    /\ last = [op |-> "close", result |-> "ok"]
    /\ updates = MaxUpdates
    /\ deletes = MaxDeletes
    /\ Len(file) >= 3
    /\ durable # [id \in Ids |-> None]

\* C22: in a session num_pages never decreases.  The pages an insert takes
\* from get_unused_page_num are the pages from the old num_pages up to the new
\* one, each becomes one node of the tree, the nodes the tree had stay on
\* their pages, and no two nodes of the tree share a page.
C22_AllocatedPagesAreNew ==
    [][running /\ running' =>
           LET after == TreePages(Machine(pager', file'))
               before == TreePages(Now)
           IN /\ pager'.num_pages >= pager.num_pages
              /\ NoSharedPage(Machine(pager', file'))
              /\ before \subseteq after
              /\ after \ before = pager.num_pages..(pager'.num_pages - 1)]_vars

\* the last insert split an internal root: it took a page for a leaf, for an
\* internal node and for the left child of the new root
C22_Witness ==
    /\ running
    /\ last = [op |-> "insert", result |-> "EXECUTE_SUCCESS"]
    /\ PathLengths(Now, 0, Now.num_pages) = {2}
    /\ internal_node_num_keys(PageAt(Now, 0)) = 1
    /\ NoSharedPage(Now)

\* C23: the table refines a sorted map from id to (username, email).  In a
\* state where a select prints the rows of the map, in ascending id order,
\* it does so again after the insert of any id, after the delete of any
\* stored id and after the update of any stored id, each applied to the
\* table and to the map; a deleted row is then not printed.
C23_TableRefinesSortedMap ==
    running /\ SelectRows = ExpectedRows(amap) =>
        /\ \A id \in Keys :
               LET r == execute_insert(Now, Row(id, ValOf(id)[1], ValOf(id)[2]))
               IN r.m.err = "ok" => execute_select(r.m).rows = ExpectedRows(AbsInsert(amap, id, ValOf(id)))
        /\ \A id \in Stored(amap) \cap Keys :
               LET r == execute_delete(Now, id)
               IN r.m.err = "ok" => execute_select(r.m).rows = ExpectedRows(AbsDelete(amap, id))
        /\ \A id \in Stored(amap) \cap Keys : \A v \in Vals :
               LET r == execute_update(Now, Row(id, v[1], v[2]))
               IN r.m.err = "ok" => execute_select(r.m).rows = ExpectedRows(AbsUpdate(amap, id, v))

C25_SelectCursorOnExistingCell ==
    running =>
        \A cursor \in SelectCursors(SelectState(start_table(Now), <<>>), Now.num_pages * LEAF_NODE_MAX_CELL + 1) :
            cursor.cell_num < leaf_node_num_cells(PageAt(Now, cursor.page_num))

\* C26: in every state reached by inserts and deletes, and in the state a
\* further delete leads to, start_table returns a cursor at cell 0 of the
\* leftmost leaf whose end_of_table is set if and only if the table holds no
\* row.
C26_StartAtEndIffNoRows ==
    running =>
        /\ StartsAtFirstRow(Now)
        /\ \A id \in Keys :
               LET r == execute_delete(Now, id)
               IN r.m.err = "ok" => StartsAtFirstRow(r.m)

\* C27: in every state reached by inserts and deletes, no insert evaluates
\* get_node_max_key on a subtree whose last leaf, down the right children,
\* is empty: the index num_cells - 1 does not wrap and the insert does not
\* end in undefined behaviour.
C27_MaxKeyReadsAStoredKey ==
    running =>
        \A id \in Keys : execute_insert(Now, Row(id, ValOf(id)[1], ValOf(id)[2])).m.err # "ub"

\* the cells a leaf holds, each key with its row
CellsOf(node) == {leaf_node_cell(node, i) : i \in 0..(leaf_node_num_cells(node) - 1)}

\* the keys of a leaf ascend from cell to cell
Ascends(node) == \A i, j \in 0..(leaf_node_num_cells(node) - 1) : i < j => leaf_node_key(node, i) < leaf_node_key(node, j)

\* the page that holds the old leaf after the split: create_new_root moves
\* a root leaf to a new page, child 0 of the new root
OldLeafAfter(m, page_num) == IF page_num = 0 THEN internal_node_cell(PageAt(m, 0), 0).child ELSE page_num

\* C28: an insert of a key K that a full leaf does not hold, at the slot the
\* search gives, leaves the old leaf with exactly the
\* LEAF_NODE_LEFT_SPLIT_COUNT smallest and the new leaf with exactly the
\* LEAF_NODE_RIGHT_SPLIT_COUNT largest of the old keys and K, each leaf
\* ascending, every old cell kept as it was (no cell is overwritten before it
\* is copied) and K with its row; the two counts add up to
\* LEAF_NODE_MAX_CELL + 1 and lie strictly between 0 and LEAF_NODE_MAX_CELL
\* for every leaf capacity from 3 to the 13 cells of the build (with the two
\* cells of the model the left count is the capacity itself).
C28_SplitHalvesOfAFullLeaf ==
    running =>
        \A id \in Ids :
            LET f == find_table(Now, 0, id)
                old_before == PageAt(Now, f.cursor.page_num)
                r == execute_insert(Now, Row(id, ValOf(id)[1], ValOf(id)[2]))
                old_node == PageAt(r.m, OldLeafAfter(r.m, f.cursor.page_num))
                new_node == PageAt(r.m, Now.num_pages)
                all == CellsOf(old_before) \cup {LeafCell(id, serialize_row(Row(id, ValOf(id)[1], ValOf(id)[2])))}
                keys == {cell.key : cell \in all}
            IN /\ f.m.err = "ok"
               /\ leaf_node_num_cells(old_before) = LEAF_NODE_MAX_CELL
               /\ id \notin {cell.key : cell \in CellsOf(old_before)}
               /\ r.m.err = "ok"
               => /\ leaf_node_num_cells(old_node) = LEAF_NODE_LEFT_SPLIT_COUNT
                  /\ leaf_node_num_cells(new_node) = LEAF_NODE_RIGHT_SPLIT_COUNT
                  /\ LEAF_NODE_LEFT_SPLIT_COUNT + LEAF_NODE_RIGHT_SPLIT_COUNT = LEAF_NODE_MAX_CELL + 1
                  /\ 0 < LEAF_NODE_LEFT_SPLIT_COUNT /\ LEAF_NODE_LEFT_SPLIT_COUNT <= LEAF_NODE_MAX_CELL
                  /\ 0 < LEAF_NODE_RIGHT_SPLIT_COUNT /\ LEAF_NODE_RIGHT_SPLIT_COUNT < LEAF_NODE_MAX_CELL
                  /\ \A max \in 3..13 :
                         LET right == (max + 1) \div 2
                             left == (max + 1) - right
                         IN left + right = max + 1 /\ 0 < left /\ left < max /\ 0 < right /\ right < max
                  /\ CellsOf(old_node) = {cell \in all : cell.key \in Lowest(keys, LEAF_NODE_LEFT_SPLIT_COUNT)}
                  /\ CellsOf(new_node) = {cell \in all : cell.key \notin Lowest(keys, LEAF_NODE_LEFT_SPLIT_COUNT)}
                  /\ Cardinality(keys) = LEAF_NODE_MAX_CELL + 1
                  /\ Ascends(old_node) /\ Ascends(new_node)

\* an insert has split a leaf below an internal node, the two halves are
\* next to each other in the tree, and a further insert would split a full
\* leaf below an internal node with a key that goes to its first slot
C28_Witness ==
    /\ running
    /\ last = [op |-> "insert", result |-> "EXECUTE_SUCCESS"]
    /\ Now.num_pages >= 4
    /\ Now.err = "ok"
    /\ \E pn \in TreeLeaves(Now) :
           /\ leaf_node_num_cells(PageAt(Now, pn)) = LEAF_NODE_LEFT_SPLIT_COUNT
           /\ leaf_node_next_leaf(PageAt(Now, pn)) = Now.num_pages - 1
           /\ IsLeaf(Now, Now.num_pages - 1)
           /\ leaf_node_num_cells(PageAt(Now, Now.num_pages - 1)) = LEAF_NODE_RIGHT_SPLIT_COUNT
    /\ \E id \in Ids :
           LET f == find_table(Now, 0, id)
               r == execute_insert(Now, Row(id, ValOf(id)[1], ValOf(id)[2]))
           IN /\ f.m.err = "ok"
              /\ f.cursor.page_num # 0
              /\ f.cursor.cell_num = 0
              /\ leaf_node_num_cells(PageAt(Now, f.cursor.page_num)) = LEAF_NODE_MAX_CELL
              /\ id \notin KeysIn(Now, f.cursor.page_num)
              /\ r.m.err = "ok"
              /\ r.m.num_pages = Now.num_pages + 1

\* the pages an internal node lists, and the keys stored below a page
ChildSet(m, page_num) == {Children(m, page_num)[i] : i \in DOMAIN Children(m, page_num)}

KeysBelow(m, page_num) == UNION {KeysIn(m, q) : q \in {r \in Reach(m, {page_num}) : IsLeaf(m, r)}}

\* old and new together list the former children of old and extra, each once,
\* within the capacity and with a right child
SplitShares(m0, m1, old0, old1, new, extra) ==
    /\ IsInternal(m1, old1) /\ IsInternal(m1, new) /\ old1 # new
    /\ ChildSet(m1, old1) \cup ChildSet(m1, new) = ChildSet(m0, old0) \cup {extra}
    /\ ChildSet(m1, old1) \cap ChildSet(m1, new) = {}
    /\ Listed(m1, {old1, new}) = INTERNAL_NODE_MAX_CELL + 2
    /\ \A pn \in {old1, new} :
           /\ internal_node_num_keys(PageAt(m1, pn)) <= INTERNAL_NODE_MAX_CELL
           /\ internal_node_right_child(PageAt(m1, pn)) \in TablePages(m1)

\* every key under old is smaller than every key under new
SplitOrdered(m1, old1, new) == \A j \in KeysBelow(m1, old1) : \A k \in KeysBelow(m1, new) : j < k

\* the parent field of every child names the node that lists it
SplitParents(m1, old1, new) == \A pn \in {old1, new} : \A c \in ChildSet(m1, pn) : node_parent(PageAt(m1, c)) = pn

\* the parent of old lists new right after old, each with the largest key
\* below it as its key
SplitInParent(m1, old1, new) ==
    LET parent_page_num == node_parent(PageAt(m1, old1))
        parent == PageAt(m1, parent_page_num)
        listed == Children(m1, parent_page_num)
    IN /\ IsInternal(m1, parent_page_num)
       /\ node_parent(PageAt(m1, new)) = parent_page_num
       /\ \E i \in DOMAIN listed :
              /\ listed[i] = old1
              /\ i + 1 \in DOMAIN listed
              /\ listed[i + 1] = new
              /\ internal_node_key(parent, i - 1) = MaxKeyBelow(m1, old1)
              /\ i + 1 <= internal_node_num_keys(parent) => internal_node_key(parent, i) = MaxKeyBelow(m1, new)

\* the parent of the leaf that the search for id ends in
ParentOfLeaf(id) == node_parent(PageAt(Now, find_table(Now, 0, id).cursor.page_num))

\* the insert of id fills a leaf whose parent is a full internal node of a
\* well-formed tree: internal_node_split_insert runs
SplitsInternal(id) ==
    LET f == find_table(Now, 0, id)
        old0 == ParentOfLeaf(id)
    IN /\ running /\ Clean(Now)
       /\ f.m.err = "ok"
       /\ f.cursor.page_num # 0
       /\ leaf_node_num_cells(PageAt(Now, f.cursor.page_num)) = LEAF_NODE_MAX_CELL
       /\ id \notin KeysIn(Now, f.cursor.page_num)
       /\ IsInternal(Now, old0)
       /\ internal_node_num_keys(PageAt(Now, old0)) = INTERNAL_NODE_MAX_CELL
       /\ LeafOrder(Now) /\ SeparatorKeys(Now) /\ ParentPointers(Now)
       /\ execute_insert(Now, Row(id, ValOf(id)[1], ValOf(id)[2])).m.err = "ok"

\* the page of old after the split (a root is copied to child 0 of the new
\* root) and the page of the new node
OldAfter(m1, old0) == IF old0 = 0 THEN internal_node_cell(PageAt(m1, 0), 0).child ELSE old0

NewAfter(m1, old0) == IF old0 = 0 THEN internal_node_right_child(PageAt(m1, 0)) ELSE Now.num_pages + 1

\* C29: the insert of a leaf into a full internal node ends with two internal
\* nodes that together list the former children of the old node and the new
\* leaf, each once, within the capacity and with a right child; every key
\* under old is smaller than every key under new; the parent field of each
\* child names the node that lists it; and the parent of old lists new right
\* after old with the largest keys below them as separator keys.
C29_InternalSplitKeepsTheTree ==
    \A id \in Ids \cup MidKeys :
        SplitsInternal(id) =>
            LET m1 == execute_insert(Now, Row(id, ValOf(id)[1], ValOf(id)[2])).m
                old0 == ParentOfLeaf(id)
                old1 == OldAfter(m1, old0)
                new == NewAfter(m1, old0)
            IN /\ SplitShares(Now, m1, old0, old1, new, Now.num_pages)
               /\ SplitOrdered(m1, old1, new)
               /\ SplitParents(m1, old1, new)
               /\ SplitInParent(m1, old1, new)

\* the children of internal node page_num are different pages in ascending
\* order of their largest keys, each cell with the largest key below its
\* child, and each child names page_num as its parent
NodeInOrder(m, page_num) ==
    LET node == PageAt(m, page_num)
        num_keys == internal_node_num_keys(node)
        listed == Children(m, page_num)
    IN /\ IsInternal(m, page_num)
       /\ num_keys \in 1..INTERNAL_NODE_MAX_CELL
       /\ \A i \in DOMAIN listed : listed[i] \in TablePages(m) /\ node_parent(PageAt(m, listed[i])) = page_num
       /\ \A i, j \in DOMAIN listed : i < j => listed[i] # listed[j] /\ MaxKeyBelow(m, listed[i]) < MaxKeyBelow(m, listed[j])
       /\ \A i \in 0..(num_keys - 1) : internal_node_key(node, i) = MaxKeyBelow(m, listed[i + 1])
       /\ \A i \in DOMAIN listed : KeysBelow(m, listed[i]) # {}

\* a sequence of pages without the page child
Without(listed, child) == SelectSeq(listed, LAMBDA c : c # child)

\* the insert of id splits a leaf whose parent is an internal node in order
\* that is not full: internal_node_insert adds the new leaf to it
InsertsIntoInternal(id) ==
    LET f == find_table(Now, 0, id)
        parent_page_num == ParentOfLeaf(id)
    IN /\ running /\ Clean(Now)
       /\ f.m.err = "ok"
       /\ f.cursor.page_num # 0
       /\ leaf_node_num_cells(PageAt(Now, f.cursor.page_num)) = LEAF_NODE_MAX_CELL
       /\ id \notin KeysIn(Now, f.cursor.page_num)
       /\ IsInternal(Now, parent_page_num)
       /\ internal_node_num_keys(PageAt(Now, parent_page_num)) < INTERNAL_NODE_MAX_CELL
       /\ internal_node_right_child(PageAt(Now, parent_page_num)) # INVALID_PAGE_NUM
       /\ NodeInOrder(Now, parent_page_num)
       /\ LeafOrder(Now)

\* C30: internal_node_insert of a new leaf into an internal node that is not
\* full and has a right child increases num_keys by exactly 1, keeps the
\* children in ascending order of their largest keys with those keys in the
\* cells, keeps every other child in its order, sets the parent field of the
\* new leaf to the node, and makes the new leaf the right child, the former
\* right child going to the last cell with its largest key, exactly when the
\* new leaf holds larger keys than the former right child.
C30_InsertIntoInternalNode ==
    \A id \in Ids \cup MidKeys :
        InsertsIntoInternal(id) =>
            LET m1 == execute_insert(Now, Row(id, ValOf(id)[1], ValOf(id)[2])).m
                parent_page_num == ParentOfLeaf(id)
                child_page_num == Now.num_pages
                before == PageAt(Now, parent_page_num)
                after == PageAt(m1, parent_page_num)
                num_keys == internal_node_num_keys(before)
                right_child_page_num == internal_node_right_child(before)
            IN /\ m1.err = "ok"
               /\ internal_node_num_keys(after) = num_keys + 1
               /\ NodeInOrder(m1, parent_page_num)
               /\ Without(Children(m1, parent_page_num), child_page_num) = Children(Now, parent_page_num)
               /\ ChildSet(m1, parent_page_num) = ChildSet(Now, parent_page_num) \cup {child_page_num}
               /\ node_parent(PageAt(m1, child_page_num)) = parent_page_num
               /\ \A i \in 0..(num_keys - 1) :
                      find_table(Now, 0, id).cursor.page_num # internal_node_cell(before, i).child =>
                          \E j \in 0..num_keys : internal_node_cell(after, j) = internal_node_cell(before, i)
               /\ IF MaxKeyBelow(m1, child_page_num) > MaxKeyBelow(m1, right_child_page_num)
                  THEN /\ internal_node_right_child(after) = child_page_num
                       /\ internal_node_cell(after, num_keys).child = right_child_page_num
                       /\ internal_node_key(after, num_keys) = MaxKeyBelow(m1, right_child_page_num)
                  ELSE /\ internal_node_right_child(after) = right_child_page_num
                       /\ \E idx \in 0..num_keys :
                              /\ internal_node_cell(after, idx).child = child_page_num
                              /\ internal_node_key(after, idx) = MaxKeyBelow(m1, child_page_num)
                              /\ \A i \in idx..(num_keys - 1) : internal_node_cell(after, i + 1).child = internal_node_cell(before, i).child

\* an insert has added a leaf to an internal node as a cell between other
\* cells, and a further insert would add a leaf to an internal node that is
\* not full
C30_Witness ==
    /\ running
    /\ last = [op |-> "insert", result |-> "EXECUTE_SUCCESS"]
    /\ Clean(Now)
    /\ LET child_page_num == Now.num_pages - 1
           parent_page_num == node_parent(PageAt(Now, child_page_num))
       IN /\ IsLeaf(Now, child_page_num)
          /\ NodeInOrder(Now, parent_page_num)
          /\ internal_node_num_keys(PageAt(Now, parent_page_num)) >= 2
          /\ internal_node_cell(PageAt(Now, parent_page_num), 1).child = child_page_num
    /\ \E id \in Ids : InsertsIntoInternal(id)

\* an internal node as initialize_internal_node leaves it
Stub(node) == get_node_type(node) = INTERNAL_NODE /\ internal_node_num_keys(node) = 0 /\ internal_node_right_child(node) = INVALID_PAGE_NUM

\* the table with a new page initialized as an internal node, as
\* internal_node_split_insert makes it for a node that is not the root
WithStub(m) == InitInternal(get_page(m, get_unused_page_num(m)), get_unused_page_num(m))

\* C31: internal_node_insert of a child into an internal node with
\* num_keys = 0 and right_child = INVALID_PAGE_NUM sets right_child to the
\* child and leaves num_keys at 0, the cells and every other page as they
\* were; no page of the table is such a node when a statement has returned.
C31_StubTakesFirstChildAsRightChild ==
    running =>
        /\ \A pn \in TablePages(Now) : ~Stub(PageAt(Now, pn))
        /\ \A child_page_num \in TreePages(Now) \ {0} :
               LET m0 == WithStub(Now)
                   new_page_num == get_unused_page_num(Now)
                   m1 == internal_node_insert(m0, new_page_num, child_page_num, 0)
               IN m0.err = "ok" /\ m1.err = "ok" =>
                      /\ Stub(PageAt(m0, new_page_num))
                      /\ PageAt(m1, new_page_num) = [PageAt(m0, new_page_num) EXCEPT !.link = child_page_num]
                      /\ internal_node_num_keys(PageAt(m1, new_page_num)) = 0
                      /\ m1.num_pages = m0.num_pages
                      /\ \A pn \in TablePages(m0) \ {new_page_num} : PageAt(m1, pn) = PageAt(m0, pn)

\* an insert has split a leaf and then an internal node below the root (the
\* two newest pages are the new leaf and the new internal node, which began
\* as such a node), and a child of the tree can be given to another one
C31_Witness ==
    /\ running
    /\ last = [op |-> "insert", result |-> "EXECUTE_SUCCESS"]
    /\ Cardinality(TreeInternals(Now)) >= 3
    /\ IsInternal(Now, Now.num_pages - 1)
    /\ IsLeaf(Now, Now.num_pages - 2)
    /\ internal_node_num_keys(PageAt(Now, Now.num_pages - 1)) >= 1
    /\ \E child_page_num \in TreePages(Now) \ {0} :
           internal_node_insert(WithStub(Now), get_unused_page_num(Now), child_page_num, 0).err = "ok"

\* what create_new_root leaves of an internal root root0 that it moved to
\* page left_child_page_num, apart from the parent fields of the children
NewRootOver(m1, root0, left_child_page_num, right_child_page_num) ==
    LET root == PageAt(m1, 0)
        left_child == PageAt(m1, left_child_page_num)
    IN /\ left_child = [root0 EXCEPT !.is_root = 0, !.parent = 0]
       /\ get_node_type(root) = INTERNAL_NODE /\ is_root_node(root)
       /\ internal_node_num_keys(root) = 1
       /\ internal_node_cell(root, 0).child = left_child_page_num
       /\ internal_node_key(root, 0) = MaxKeyBelow(m1, left_child_page_num)
       /\ internal_node_right_child(root) = right_child_page_num
       /\ node_parent(left_child) = 0
       /\ node_parent(PageAt(m1, right_child_page_num)) = 0

\* C32: create_new_root on a full internal root returns with the old root's
\* keys and children in the left child page, is_root cleared, every child of
\* the left child (those of the cells and the right child) with the left
\* child page as parent, and the root with one key, child(0) the left child,
\* key(0) the largest key below it, right_child the given page and both
\* children with parent 0.
C32_NewRootOverInternalRoot ==
    running /\ IsInternal(Now, 0) /\ internal_node_num_keys(PageAt(Now, 0)) = INTERNAL_NODE_MAX_CELL /\ ParentPointers(Now) =>
        LET right_child_page_num == get_unused_page_num(Now)
            m1 == create_new_root(Now, 0, right_child_page_num)
            left_child_page_num == right_child_page_num + 1
        IN m1.err = "ok" =>
               /\ NewRootOver(m1, PageAt(Now, 0), left_child_page_num, right_child_page_num)
               /\ \A child \in ChildSet(m1, left_child_page_num) : node_parent(PageAt(m1, child)) = left_child_page_num

\* C32 as the code has it: create_new_root on a full internal root returns
\* with the old root's keys and children in the left child page, is_root
\* cleared, the child of every cell of the left child with the left child
\* page as parent, the right child of the left child still with parent 0,
\* and the root with one key, child(0) the left child, key(0) the largest
\* key below it, right_child the given page and both children with parent 0.
C32_NewRootReparentsCellChildren ==
    running /\ IsInternal(Now, 0) /\ internal_node_num_keys(PageAt(Now, 0)) = INTERNAL_NODE_MAX_CELL /\ ParentPointers(Now) =>
        LET right_child_page_num == get_unused_page_num(Now)
            m1 == create_new_root(Now, 0, right_child_page_num)
            left_child_page_num == right_child_page_num + 1
            left_child == PageAt(m1, left_child_page_num)
        IN m1.err = "ok" =>
               /\ NewRootOver(m1, PageAt(Now, 0), left_child_page_num, right_child_page_num)
               /\ \A i \in 0..(internal_node_num_keys(left_child) - 1) :
                      node_parent(PageAt(m1, internal_node_cell(left_child, i).child)) = left_child_page_num
               /\ node_parent(PageAt(m1, internal_node_right_child(left_child))) = 0

\* an insert has split the internal root: the root has one key over two
\* internal nodes, the left one the newest page of the table
C32_Witness ==
    /\ running
    /\ last = [op |-> "insert", result |-> "EXECUTE_SUCCESS"]
    /\ Clean(Now)
    /\ IsInternal(Now, 0)
    /\ internal_node_num_keys(PageAt(Now, 0)) = 1
    /\ internal_node_cell(PageAt(Now, 0), 0).child = Now.num_pages - 1
    /\ IsInternal(Now, Now.num_pages - 1)
    /\ IsInternal(Now, internal_node_right_child(PageAt(Now, 0)))
    /\ ParentPointers(Now)

\* the search for id ends in a leaf with room, at a slot that does not hold id
FitsInLeaf(id) ==
    LET f == find_table(Now, 0, id)
        node == PageAt(Now, f.cursor.page_num)
    IN /\ running
       /\ f.m.err = "ok"
       /\ leaf_node_num_cells(node) \in 0..(LEAF_NODE_MAX_CELL - 1)
       /\ f.cursor.cell_num <= leaf_node_num_cells(node)
       /\ ~(f.cursor.cell_num < leaf_node_num_cells(node) /\ leaf_node_key(node, f.cursor.cell_num) = id)

\* C33: an insert of a new id into a leaf with num_cells below
\* LEAF_NODE_MAX_CELL changes that leaf page only: num_cells grows by 1, the
\* cells before the slot stay, the new cell is at the slot, the cells from
\* the slot on are one slot further right, unchanged; the header fields of
\* the leaf, every other page and the number of pages stay as they were.
C33_InsertWithRoomChangesOneLeaf ==
    \A id \in Ids :
        FitsInLeaf(id) =>
            LET cursor == find_table(Now, 0, id).cursor
                r == execute_insert(Now, Row(id, ValOf(id)[1], ValOf(id)[2]))
                before == PageAt(Now, cursor.page_num)
                after == PageAt(r.m, cursor.page_num)
                num_cells == leaf_node_num_cells(before)
            IN /\ r.m.err = "ok"
               /\ r.result = "EXECUTE_SUCCESS"
               /\ r.m.num_pages = Now.num_pages
               /\ r.m.file_length = Now.file_length
               /\ \A pn \in TablePages(Now) \ {cursor.page_num} : PageAt(r.m, pn) = PageAt(Now, pn)
               /\ [after EXCEPT !.cells = before.cells, !.count = num_cells] = before
               /\ leaf_node_num_cells(after) = num_cells + 1
               /\ \A i \in 0..(cursor.cell_num - 1) : leaf_node_cell(after, i) = leaf_node_cell(before, i)
               /\ leaf_node_cell(after, cursor.cell_num) = LeafCell(id, serialize_row(Row(id, ValOf(id)[1], ValOf(id)[2])))
               /\ \A i \in cursor.cell_num..(num_cells - 1) : leaf_node_cell(after, i + 1) = leaf_node_cell(before, i)

\* an insert has returned in a tree of several leaves without a new page,
\* and a further insert would go before a cell of a leaf with room that is
\* not the root
C33_Witness ==
    /\ running
    /\ last = [op |-> "insert", result |-> "EXECUTE_SUCCESS"]
    /\ Clean(Now)
    /\ Cardinality(TreeLeaves(Now)) >= 3
    /\ Cardinality(LeafKeys(Now)) > Cardinality(TreeLeaves(Now))
    /\ \E id \in Ids :
           /\ FitsInLeaf(id)
           /\ find_table(Now, 0, id).cursor.page_num # 0
           /\ find_table(Now, 0, id).cursor.cell_num < leaf_node_num_cells(PageAt(Now, find_table(Now, 0, id).cursor.page_num))

\* C34: a delete that returns EXECUTE_SUCCESS changes the cells and
\* num_cells of the leaf it lands in and nothing else: the cells behind the
\* deleted one move one slot left and num_cells drops by 1, while the node
\* type, is_root, parent and next_leaf of that leaf, every other page and the
\* number of pages stay as they were, also when the leaf becomes empty.
C34_DeleteChangesOneLeaf ==
    running =>
        \A id \in Keys :
            LET cursor == find_table(Now, 0, id).cursor
                r == execute_delete(Now, id)
                before == PageAt(Now, cursor.page_num)
                after == PageAt(r.m, cursor.page_num)
                num_cell == leaf_node_num_cells(before)
            IN r.m.err = "ok" /\ r.result = "EXECUTE_SUCCESS" =>
                   /\ r.m.num_pages = Now.num_pages
                   /\ r.m.file_length = Now.file_length
                   /\ \A pn \in TablePages(Now) \ {cursor.page_num} : PageAt(r.m, pn) = PageAt(Now, pn)
                   /\ [after EXCEPT !.cells = before.cells, !.count = num_cell] = before
                   /\ leaf_node_num_cells(after) = num_cell - 1
                   /\ \A i \in 0..(cursor.cell_num - 1) : leaf_node_cell(after, i) = leaf_node_cell(before, i)
                   /\ \A i \in cursor.cell_num..(num_cell - 2) : leaf_node_cell(after, i) = leaf_node_cell(before, i + 1)

\* a delete has emptied a leaf of a tree with an internal root, and the leaf
\* is still listed by the root and still in the chain of next_leaf
C34_Witness ==
    /\ running
    /\ last = [op |-> "delete", result |-> "EXECUTE_SUCCESS"]
    /\ IsInternal(Now, 0)
    /\ \E pn \in TreeLeaves(Now) :
           /\ leaf_node_num_cells(PageAt(Now, pn)) = 0
           /\ \E q \in TreeLeaves(Now) : leaf_node_next_leaf(PageAt(Now, q)) = pn

\* C35: in every state reached by inserts and deletes every insert ends:
\* neither the descent of find_table nor the calls between
\* internal_node_insert and internal_node_split_insert go on beyond the
\* number of pages of the table.
C35_InsertEnds ==
    running =>
        \A id \in Keys \cup MidKeys :
            /\ find_table(Now, 0, id).m.err # "loop"
            /\ execute_insert(Now, Row(id, ValOf(id)[1], ValOf(id)[2])).m.err # "loop"

\* an insert has returned after a delete, and a further insert would split
\* a leaf, the internal node above it and the root above that
C35_Witness ==
    /\ running
    /\ last = [op |-> "insert", result |-> "EXECUTE_SUCCESS"]
    /\ deletes = MaxDeletes
    /\ \E id \in MidKeys :
           LET r == execute_insert(Now, Row(id, ValOf(id)[1], ValOf(id)[2]))
           IN r.m.err = "ok" /\ r.result = "EXECUTE_SUCCESS" /\ r.m.num_pages >= Now.num_pages + 4

\* the leaves that next_leaf leads through from the leaf where a select
\* starts; G stands for a page seen before or a page that is no leaf
SelectChain(m) == Chain(m, start_table(m).cursor.page_num, <<>>)

\* C36: in every state reached by inserts and deletes a select ends: from
\* the leaf where it starts, next_leaf leads through leaves only, through
\* none of them twice and never back to page 0, up to a leaf with
\* next_leaf = 0, and the cursor of execute_select reaches end_of_table.
C36_SelectEnds ==
    running /\ start_table(Now).m.err = "ok" =>
        /\ \A i \in DOMAIN SelectChain(Now) : SelectChain(Now)[i] # G
        /\ \A i \in DOMAIN SelectChain(Now) : i > 1 => SelectChain(Now)[i] # 0
        /\ execute_select(Now).m.err # "loop"

\* a select has returned in a tree of at least three leaves after a delete
\* that emptied one of them
C36_Witness ==
    /\ running
    /\ last = [op |-> "select", result |-> "EXECUTE_SUCCESS"]
    /\ deletes = MaxDeletes
    /\ Len(SelectChain(Now)) >= 3
    /\ \E pn \in TreeLeaves(Now) : leaf_node_num_cells(PageAt(Now, pn)) = 0

\* C37: in every leaf of the tree every cell below num_cells has as its key
\* the id stored in its row.
C37_KeyIsTheIdOfTheRow ==
    running =>
        \A pn \in TreeLeaves(Now) : \A i \in 0..(leaf_node_num_cells(PageAt(Now, pn)) - 1) :
            leaf_node_key(PageAt(Now, pn), i) = leaf_node_value(PageAt(Now, pn), i).b_id

\* an update and a delete have been done in a tree of several leaves, and a
\* cell written by the update holds a row with the id of its key
C37_Witness ==
    /\ running
    /\ updates = MaxUpdates
    /\ deletes = MaxDeletes
    /\ Cardinality(TreeLeaves(Now)) >= 2
    /\ \E pn \in TreeLeaves(Now) : \E i \in 0..(leaf_node_num_cells(PageAt(Now, pn)) - 1) :
           /\ leaf_node_value(PageAt(Now, pn), i).b_username = "zed"
           /\ leaf_node_key(PageAt(Now, pn), i) = leaf_node_value(PageAt(Now, pn), i).b_id

RECURSIVE LeafSearchReads(_, _, _, _)
\* the indices at which the loop of find_leaf_node reads a key
LeafSearchReads(node, key, min_index, one_past_max_index) ==
    IF min_index = one_past_max_index THEN {}
    ELSE LET mid_index == (min_index + one_past_max_index) \div 2
             key_at_mid_index == leaf_node_key(node, mid_index)
         IN {mid_index} \cup
            (IF key_at_mid_index = key THEN {}
             ELSE IF key < key_at_mid_index THEN LeafSearchReads(node, key, min_index, mid_index)
             ELSE LeafSearchReads(node, key, mid_index + 1, one_past_max_index))

\* a leaf page with the keys of S in ascending order in its first cells
LeafOf(S) ==
    [initialize_leaf_node(FreshPage) EXCEPT !.count = Cardinality(S), !.cells =
        [i \in 1..NumCells |->
            IF i <= Cardinality(S)
            THEN LET k == CHOOSE k \in S : Cardinality({j \in S : j < k}) = i - 1
                 IN LeafCell(k, serialize_row(Row(k, ValOf(k)[1], ValOf(k)[2])))
            ELSE GCell]]

\* the leaves searched: those of the tree while the database is open, and
\* before the first open every leaf of up to NumCells ascending keys
LeavesSearched ==
    IF running THEN {PageAt(Now, pn) : pn \in TreeLeaves(Now)}
    ELSE IF opens = 0 THEN {LeafOf(S) : S \in {T \in SUBSET Ids : Cardinality(T) <= NumCells}}
    ELSE {}

\* the search of find_leaf_node for key in node gives the index of key, or
\* the number of smaller keys, and reads below num_cells only
SlotFound(node, key) ==
    LET num_cell == leaf_node_num_cells(node)
        keys == {leaf_node_key(node, i) : i \in 0..(num_cell - 1)}
        cell_num == LeafSearch(node, key, 0, num_cell)
    IN /\ key \in keys => cell_num < num_cell /\ leaf_node_key(node, cell_num) = key
       /\ key \notin keys => cell_num = Cardinality({k \in keys : k < key})
       /\ \A i \in LeafSearchReads(node, key, 0, num_cell) : i < num_cell

\* C38: on a leaf with strictly ascending keys the search of find_leaf_node
\* for K returns the index of K when K is among the cells 0..num_cells-1 and
\* otherwise the number of keys of the leaf that are smaller than K, and it
\* reads no cell at an index from num_cells on.
C38_FindLeafGivesIndexOrRank ==
    \A node \in LeavesSearched :
        Ascends(node) /\ leaf_node_num_cells(node) \in 0..NumCells =>
            \A key \in 0..(MaxId + 1) : SlotFound(node, key)

\* the database is open with a full leaf below an internal root in which
\* the search finds a stored key in the last cell and gives an absent key
\* the slot behind it
C38_Witness ==
    /\ running
    /\ IsInternal(Now, 0)
    /\ \E node \in LeavesSearched :
           /\ leaf_node_num_cells(node) = LEAF_NODE_MAX_CELL
           /\ Ascends(node)
           /\ LeafSearch(node, leaf_node_key(node, LEAF_NODE_MAX_CELL - 1), 0, LEAF_NODE_MAX_CELL) = LEAF_NODE_MAX_CELL - 1
           /\ LeafSearch(node, leaf_node_key(node, LEAF_NODE_MAX_CELL - 1) + 1, 0, LEAF_NODE_MAX_CELL) = LEAF_NODE_MAX_CELL

RECURSIVE InternalSearchReads(_, _, _, _)
\* the indices at which the loop of internal_node_find_child reads a key
InternalSearchReads(node, key, min_index, max_index) ==
    IF min_index = max_index THEN {}
    ELSE LET index == (min_index + max_index) \div 2
             key_at_index == internal_node_key(node, index)
         IN {index} \cup
            (IF key <= key_at_index THEN InternalSearchReads(node, key, min_index, index)
             ELSE InternalSearchReads(node, key, index + 1, max_index))

\* an internal page with the keys of S in ascending order in its first cells
InternalOf(S) ==
    [initialize_internal_node(FreshPage) EXCEPT !.count = Cardinality(S), !.cells =
        [i \in 1..NumCells |->
            IF i <= Cardinality(S)
            THEN InternalCell(i, CHOOSE k \in S : Cardinality({j \in S : j < k}) = i - 1)
            ELSE GCell]]

\* the internal nodes searched: those of the tree while the database is
\* open, and before the first open every node of up to
\* INTERNAL_NODE_MAX_CELL ascending keys
InternalsSearched ==
    IF running THEN {PageAt(Now, pn) : pn \in TreeInternals(Now)}
    ELSE IF opens = 0 THEN {InternalOf(S) : S \in {T \in SUBSET Ids : Cardinality(T) <= INTERNAL_NODE_MAX_CELL}}
    ELSE {}

\* the keys of an internal node ascend from cell to cell
KeysAscend(node) == \A i, j \in 0..(internal_node_num_keys(node) - 1) : i < j => internal_node_key(node, i) < internal_node_key(node, j)

\* C39: on an internal node with ascending keys internal_node_find_child
\* for K returns the least index i below num_keys with K <= key(i), or
\* num_keys when K is above every key, and it reads keys at indices below
\* num_keys only.
C39_FindChildGivesLeastIndex ==
    \A node \in InternalsSearched :
        KeysAscend(node) /\ internal_node_num_keys(node) \in 0..INTERNAL_NODE_MAX_CELL =>
            \A key \in 0..(MaxId + 1) :
                LET num_keys == internal_node_num_keys(node)
                    at_least == {i \in 0..(num_keys - 1) : key <= internal_node_key(node, i)}
                    index == internal_node_find_child(node, key)
                IN /\ at_least # {} => index \in at_least /\ \A i \in at_least : index <= i
                   /\ at_least = {} => index = num_keys
                   /\ \A i \in InternalSearchReads(node, key, 0, num_keys) : i < num_keys

\* the database is open with an internal root of INTERNAL_NODE_MAX_CELL
\* ascending keys, in which the search gives the index of a key for that
\* key and num_keys for a key above all
C39_Witness ==
    /\ running
    /\ \E node \in InternalsSearched :
           /\ internal_node_num_keys(node) = INTERNAL_NODE_MAX_CELL
           /\ KeysAscend(node)
           /\ internal_node_find_child(node, internal_node_key(node, 1)) = 1
           /\ internal_node_find_child(node, internal_node_key(node, INTERNAL_NODE_MAX_CELL - 1) + 1) = INTERNAL_NODE_MAX_CELL

\* the insert of id splits a full leaf that is not the root:
\* leaf_node_split_insert calls update_internal_node_key on its parent
SplitsLeafBelow(id) ==
    LET f == find_table(Now, 0, id)
    IN /\ running /\ Clean(Now)
       /\ f.m.err = "ok"
       /\ f.cursor.page_num # 0
       /\ leaf_node_num_cells(PageAt(Now, f.cursor.page_num)) = LEAF_NODE_MAX_CELL
       /\ id \notin KeysIn(Now, f.cursor.page_num)
       /\ IsInternal(Now, ParentOfLeaf(id))
       /\ NodeInOrder(Now, ParentOfLeaf(id))

\* the index of the key that update_internal_node_key(parent, old_max,
\* new_max) of leaf_node_split_insert writes, old_max being the largest key
\* of the leaf before the split
UpdatedKeyIndex(id) ==
    internal_node_find_child(PageAt(Now, ParentOfLeaf(id)),
                             get_node_max_key(find_table(Now, 0, id).m, find_table(Now, 0, id).cursor.page_num, 0).v)

\* C40: update_internal_node_key called by an insert that splits a leaf
\* writes a key at an index below num_keys of the parent, the key of the cell
\* that lists the leaf; it writes no key when the leaf is the right child of
\* the parent.
C40_UpdateWritesAKeyOfTheNode ==
    \A id \in Ids :
        SplitsLeafBelow(id) =>
            LET parent == PageAt(Now, ParentOfLeaf(id))
            IN /\ UpdatedKeyIndex(id) < internal_node_num_keys(parent)
               /\ internal_node_cell(parent, UpdatedKeyIndex(id)).child = find_table(Now, 0, id).cursor.page_num

====
